---- MODULE Spec2Model ----
(***************************************************************************)
(* Conversor_TTS: the conversion scheduler of                              *)
(* src/Conversor_TTS_com_MP4_09.04.2025.py (iniciar_conversao_tts, the two *)
(* chunk converters and the assembler) as a state machine.                 *)
(*                                                                         *)
(* asyncio runs every coroutine on one thread: a coroutine runs without    *)
(* interruption from one await to the next, so one action of the model is  *)
(* the code between two suspension points.  The chunk tasks only run while *)
(* iniciar_conversao_tts is suspended in `await future_task`.  The signal  *)
(* handler (handler_sinal) may set the flag between any two actions.       *)
(***************************************************************************)
EXTENDS Integers, Sequences, FiniteSets, TLC

\* ---------------------------------------------------------------- bounds
\* total_partes: the number of chunks of the run.
TotalPartes == 3
\* lote_maximo_concorrente: LOTE_MAXIMO_TAREFAS_EDGE / _GEMINI are 10 in the
\* program; scaled down so that chunks do block at the semaphore.
LoteMaximo == 2
\* `tentativas` is unbounded in the code; the model saturates it here (the
\* counter only feeds the wait time, which has a ceiling of its own).
MaxTentativas == 1

\* ---------------------------------------------------------------- constants
\* the `st_size > 200` sanity threshold
TamanhoMinimo == 200

Partes == 1..TotalPartes

\* A file on disk is <<>> when it does not exist and <<n>> when it exists with
\* n bytes.
Ausente == <<>>
Truncado == <<TamanhoMinimo>>
Completo == <<TamanhoMinimo + 1>>
EstadosArquivo == {Ausente, Truncado, Completo}

\* What an earlier run leaves behind for a chunk: nothing, or its finished mp3
\* (the cleanup at the end of a run deletes the files of unfinished chunks).
ArquivosIniciais == {Ausente, Completo}
\* What a failed attempt leaves behind: nothing, or a file cut short.
ArquivosAposFalha == {Ausente, Truncado}

\* Mutant: the check without the size.
ArquivoValido_SoExiste(f) == f # Ausente

\* path.exists() and path.stat().st_size > 200
ArquivoValido(f) == f # Ausente /\ f[1] > TamanhoMinimo

Motores == {"edge", "gemini"}

\* What one HTTP call of the Gemini variant can come back with.
RespostasGemini ==
    {"200_audio", "200_sem_audio", "429", "400", "chave_expirada", "outro_erro", "timeout"}

\* How a chunk task ends: the return statement it left by, or the place where
\* t.cancel() caught it ("abortada": inside the engine call or the transcode;
\* "cancelada": asleep or still waiting for a slot).
\* "vazio" is the `return True` for a chunk without text.
Saidas == {"existente", "sucesso", "vazio", "fatal", "cancelado", "cancelado_semaforo",
           "abortada", "cancelada"}
\* The boolean a return statement returns.
ValorRetorno(s) == s \in {"existente", "sucesso", "vazio"}

VARIABLES
    CANCELAR_PROCESSAMENTO, \* the global flag
    motor,                  \* motor_escolhido
    pc,                     \* where iniciar_conversao_tts is
    idx_global_parte,       \* tasks created so far (the creation loop's index)
    tarefa,                 \* tarefa[i]: where chunk task i is
    tentativas,             \* tentativas[i]: the retry counter of task i
    saida,                  \* saida[i]: the return statement task i left by
    semaphore_api_calls,    \* free slots of the semaphore
    fila,                   \* as_completed: finished tasks not yet yielded
    arquivo,                \* arquivo[i]: the temp mp3 of chunk i on disk
    resultados_conversao,
    partes_concluidas,
    partes_com_falha,
    arquivos_mp3_sucesso,   \* the list handed to the assembler (indices)
    arquivo_final,          \* chunks merged into the final file, <<>> if none
    mensagens,              \* what the run printed about its outcome
    inicial,                \* history: arquivo when the run started
    invocado,               \* history: the engine was called for chunk i
    ordem_coleta,           \* history: indices in the order main collected them
    sigint_handler,         \* what SIGINT is bound to
    texto_vazio,            \* texto_vazio[i]: chunk i has no text (not texto_chunk.strip())
    espera,                 \* one retry loop and the waits it computes
    processo,               \* one call of _executar_ffmpeg_comando
    divisao,                \* one call of dividir_texto_para_tts
    lite,                   \* conversor_tts_lite.py: runs of processar_audio and the disk
    tts3,                   \* TTS3.py: the chunk tasks of one iniciar_conversao
    formatacao              \* one call of formatar_texto_para_tts

vars == <<CANCELAR_PROCESSAMENTO, motor, pc, idx_global_parte, tarefa, tentativas,
          saida, semaphore_api_calls, fila, arquivo, resultados_conversao,
          partes_concluidas, partes_com_falha, arquivos_mp3_sucesso, arquivo_final,
          mensagens, inicial, invocado, ordem_coleta, sigint_handler, texto_vazio,
          espera, processo, divisao, lite, tts3, formatacao>>

varsTarefa == <<tarefa, tentativas, saida, semaphore_api_calls, fila, arquivo, invocado>>
varsColeta == <<resultados_conversao, partes_concluidas, partes_com_falha, ordem_coleta>>
varsFinal == <<arquivos_mp3_sucesso, arquivo_final, mensagens>>
\* What no step of a conversion run changes: its inputs, and the variables of
\* the functions that are looked at on their own.
varsFixas == <<inicial, texto_vazio, espera, processo, divisao, lite, tts3, formatacao>>

\* States of a task in which it holds a slot of the semaphore.
EstadosAdmitidos == {"tentando", "transcodificando", "dormindo", "dormindo429"}
EstadosTarefa == {"nao_criada", "semaforo", "retornou", "cancelada"} \cup EstadosAdmitidos

Admitidas == {i \in Partes : tarefa[i] \in EstadosAdmitidos}

Min(a, b) == IF a <= b THEN a ELSE b

TypeOK ==
    /\ CANCELAR_PROCESSAMENTO \in BOOLEAN
    /\ motor \in Motores
    /\ pc \in {"criando", "topo", "aguardando", "verificando", "decidindo", "ffmpeg",
               "confirmando", "confirmado", "melhorando", "limpando", "fim"}
    /\ sigint_handler \in {"handler_sinal", "SIG_DFL"}
    /\ texto_vazio \in [Partes -> BOOLEAN]
    /\ idx_global_parte \in 0..TotalPartes
    /\ tarefa \in [Partes -> EstadosTarefa]
    /\ tentativas \in [Partes -> 0..MaxTentativas]
    /\ saida \in [Partes -> Saidas \cup {"nenhuma"}]
    /\ arquivo \in [Partes -> EstadosArquivo]
    /\ resultados_conversao \in [Partes -> BOOLEAN]
    /\ partes_concluidas \in 0..TotalPartes
    /\ partes_com_falha \in 0..TotalPartes

\* ---------------------------------------------------------------- at rest
\* The values the variables of the separately specified functions keep during
\* a conversion run.
EsperaParada == [motor |-> "edge", tentativas |-> 0, causa |-> "nenhuma",
                 details |-> <<>>, seguidas |-> 0, wait_time |-> 0]
ProcessoParado == [fase |-> "parado", estado |-> "nenhum", pipe |-> 0, escritas |-> 0,
                   terminate |-> FALSE, kill |-> FALSE, visto |-> FALSE,
                   retorno |-> "nenhum"]
DivisaoParada == [fase |-> "parado", texto_processado |-> <<>>, limite_caracteres |-> 1,
                  partes |-> <<>>]
ArquivoInexistente == [existe |-> FALSE, conteudo |-> <<>>]
LiteParado == [fase |-> "parado", execucoes |-> 0, interrupcao_requisitada |-> FALSE,
               manter_separado |-> FALSE, indice_inicial |-> 0, i |-> 0, tentativa |-> 0,
               temp_files |-> <<>>, arquivos_temp |-> {},
               arquivo_progresso |-> ArquivoInexistente,
               arquivo_saida |-> ArquivoInexistente,
               retorno |-> FALSE, sintetizadas |-> {}, esgotadas |-> {},
               interrompida |-> FALSE]
Tts3Parado == [fase |-> "parado", CANCELAR_PROCESSAMENTO |-> FALSE, semaphore |-> 0,
               chunk |-> <<>>]
FormatacaoParada ==
    [fase |-> "parado", passo |-> 0, texto_bruto |-> <<>>, anterior |-> <<>>, texto |-> <<>>]

\* ---------------------------------------------------------------- Init
\* The state at `resultados_conversao = [False] * total_partes`: the flag was
\* reset at the top of iniciar_conversao_tts; the output directory may hold
\* files of an earlier, interrupted run; the main loop has bound SIGINT to
\* handler_sinal; no chunk is empty (dividir_texto_para_tts filters empty
\* parts out).
Init ==
    /\ CANCELAR_PROCESSAMENTO = FALSE
    /\ motor \in Motores
    /\ pc = "criando"
    /\ idx_global_parte = 0
    /\ tarefa = [i \in Partes |-> "nao_criada"]
    /\ tentativas = [i \in Partes |-> 0]
    /\ saida = [i \in Partes |-> "nenhuma"]
    /\ semaphore_api_calls = LoteMaximo
    /\ fila = <<>>
    /\ arquivo \in [Partes -> ArquivosIniciais]
    /\ inicial = arquivo
    /\ resultados_conversao = [i \in Partes |-> FALSE]
    /\ partes_concluidas = 0
    /\ partes_com_falha = 0
    /\ arquivos_mp3_sucesso = <<>>
    /\ arquivo_final = <<>>
    /\ mensagens = {}
    /\ invocado = [i \in Partes |-> FALSE]
    /\ ordem_coleta = <<>>
    /\ sigint_handler = "handler_sinal"
    /\ texto_vazio = [i \in Partes |-> FALSE]
    /\ espera = EsperaParada
    /\ processo = ProcessoParado
    /\ divisao = DivisaoParada
    /\ lite = LiteParado
    /\ tts3 = Tts3Parado
    /\ formatacao = FormatacaoParada

\* ---------------------------------------------------------------- the signal
\* SIGINT while it is bound to handler_sinal: the handler sets the flag and
\* gives SIGINT back to the default handler.
handler_sinal ==
    /\ pc # "fim"
    /\ sigint_handler = "handler_sinal"
    /\ CANCELAR_PROCESSAMENTO' = TRUE
    /\ sigint_handler' = "SIG_DFL"
    /\ UNCHANGED <<motor, pc, idx_global_parte, varsTarefa, varsColeta, varsFinal, varsFixas>>

\* ---------------------------------------------------------------- chunk tasks
\* Mutant: the collection loop also gives up on the rest once a first task was
\* collected.
CanceladoNaColeta_AposPrimeira == CANCELAR_PROCESSAMENTO \/ partes_concluidas >= 1

\* Mutant: the retry loop does not look at the flag.
CanceladoNoLoop_Ignorado == FALSE

\* The places that read the flag.
CanceladoNaCriacao == CANCELAR_PROCESSAMENTO
CanceladoNaColeta == CANCELAR_PROCESSAMENTO
CanceladoNoSemaforo == CANCELAR_PROCESSAMENTO
CanceladoNoLoop == CANCELAR_PROCESSAMENTO

\* Mutant: a semaphore that lets every task in.
SemaforoLivre_SemLimite == TRUE

\* `async with semaphore_api_calls`: a task enters only when a slot is free.
SemaforoLivre == semaphore_api_calls > 0

\* Task i returns by return statement s, leaving file f; the `async with`
\* gives the slot back if the task held one, and as_completed queues the
\* finished task.  The local `tentativas` ends with the call (0 stands for
\* "no such variable").
Retornar(i, s, f) ==
    /\ tarefa' = [tarefa EXCEPT ![i] = "retornou"]
    /\ saida' = [saida EXCEPT ![i] = s]
    /\ arquivo' = [arquivo EXCEPT ![i] = f]
    /\ fila' = Append(fila, i)
    /\ semaphore_api_calls' =
           IF tarefa[i] \in EstadosAdmitidos THEN semaphore_api_calls + 1
           ELSE semaphore_api_calls
    /\ tentativas' = [tentativas EXCEPT ![i] = 0]
    /\ UNCHANGED invocado

\* One pass through the top of `while True`: the flag check, the unlink, the
\* `return True` for a chunk without text, and the start of the engine call.
IterarLoop(i) ==
    IF CanceladoNoLoop
    THEN Retornar(i, "cancelado", arquivo[i])
    ELSE IF texto_vazio[i]
    THEN Retornar(i, "vazio", Ausente)
    ELSE /\ tarefa' = [tarefa EXCEPT ![i] = "tentando"]
         /\ arquivo' = [arquivo EXCEPT ![i] = Ausente]
         /\ invocado' = [invocado EXCEPT ![i] = TRUE]
         /\ semaphore_api_calls' =
                IF tarefa[i] \in EstadosAdmitidos THEN semaphore_api_calls
                ELSE semaphore_api_calls - 1
         /\ UNCHANGED <<tentativas, saida, fila>>

\* The head of _converter_chunk_tts_edge / _converter_chunk_tts_gemini: an
\* output file that is already there and big enough counts as converted.
converter_chunk_tts(i) ==
    IF ArquivoValido(arquivo[i])
    THEN Retornar(i, "existente", arquivo[i])
    ELSE IterarLoop(i)

\* The task gets its slot and runs up to its first await.
converter_com_semaforo(i) ==
    /\ pc = "aguardando"
    /\ tarefa[i] = "semaforo"
    /\ SemaforoLivre
    /\ IF CanceladoNoSemaforo
       THEN Retornar(i, "cancelado_semaforo", arquivo[i])
       ELSE converter_chunk_tts(i)
    /\ UNCHANGED <<CANCELAR_PROCESSAMENTO, motor, pc, idx_global_parte, varsColeta,
                   varsFinal, sigint_handler, varsFixas>>

\* Mutant: the bounded retry the code once had -- give up and return False when
\* the counter reaches its ceiling.
FalhaRetentavel_Desiste(i, f) ==
    IF tentativas[i] + 1 >= MaxTentativas
    THEN Retornar(i, "desistiu", f)
    ELSE /\ tarefa' = [tarefa EXCEPT ![i] = "dormindo"]
         /\ tentativas' = [tentativas EXCEPT ![i] = tentativas[i] + 1]
         /\ arquivo' = [arquivo EXCEPT ![i] = f]
         /\ UNCHANGED <<saida, fila, semaphore_api_calls, invocado>>

\* Mutant: the slot is given back for the time of the backoff sleep.
FalhaRetentavel_SoltaSlot(i, f) ==
    /\ tarefa' = [tarefa EXCEPT ![i] = "dormindo"]
    /\ tentativas' = [tentativas EXCEPT ![i] = Min(tentativas[i] + 1, MaxTentativas)]
    /\ arquivo' = [arquivo EXCEPT ![i] = f]
    /\ semaphore_api_calls' = semaphore_api_calls + 1
    /\ UNCHANGED <<saida, fila, invocado>>

\* `tentativas += 1` and the backoff sleep; the attempt left file f behind.
FalhaRetentavel(i, f) ==
    /\ tarefa' = [tarefa EXCEPT ![i] = "dormindo"]
    /\ tentativas' = [tentativas EXCEPT ![i] = Min(tentativas[i] + 1, MaxTentativas)]
    /\ arquivo' = [arquivo EXCEPT ![i] = f]
    /\ UNCHANGED <<saida, fila, semaphore_api_calls, invocado>>

\* communicate.save() comes back: it raised, or it returned having written f.
RespostaEdge(i) ==
    /\ pc = "aguardando"
    /\ motor = "edge"
    /\ tarefa[i] = "tentando"
    /\ \E f \in EstadosArquivo :
           IF ArquivoValido(f)
           THEN Retornar(i, "sucesso", f)
           ELSE FalhaRetentavel(i, f)
    /\ UNCHANGED <<CANCELAR_PROCESSAMENTO, motor, pc, idx_global_parte, varsColeta,
                   varsFinal, sigint_handler, varsFixas>>

\* Mutant: only the status code makes an answer fatal.
RespostaFatal_So400(r) == r = "400"

\* `if http_status == 400 or "API key expired" in error_text`, for an answer
\* that is neither 200 nor 429 ("chave_expirada": another status whose body
\* has that text).
RespostaFatal(r) == r \in {"400", "chave_expirada"}

\* What the task does with response r.
TratarResposta(i, r) ==
    CASE r = "200_audio" ->
             /\ tarefa' = [tarefa EXCEPT ![i] = "transcodificando"]
             /\ UNCHANGED <<tentativas, saida, semaphore_api_calls, fila, arquivo,
                            invocado>>
      [] r = "429" ->
             /\ tarefa' = [tarefa EXCEPT ![i] = "dormindo429"]
             /\ UNCHANGED <<tentativas, saida, semaphore_api_calls, fila, arquivo,
                            invocado>>
      [] RespostaFatal(r) ->
             Retornar(i, "fatal", arquivo[i])
      [] OTHER ->
             FalhaRetentavel(i, arquivo[i])

\* aiohttp_session.post() comes back with response r.
RespostaGemini(i) ==
    /\ pc = "aguardando"
    /\ motor = "gemini"
    /\ tarefa[i] = "tentando"
    /\ \E r \in RespostasGemini : TratarResposta(i, r)
    /\ UNCHANGED <<CANCELAR_PROCESSAMENTO, motor, pc, idx_global_parte, varsColeta,
                   varsFinal, sigint_handler, varsFixas>>

\* The PCM -> MP3 ffmpeg subprocess of the Gemini variant comes back.
TranscodificarGemini(i) ==
    /\ pc = "aguardando"
    /\ tarefa[i] = "transcodificando"
    /\ \E f \in EstadosArquivo :
           IF ArquivoValido(f)
           THEN Retornar(i, "sucesso", f)
           ELSE FalhaRetentavel(i, f)
    /\ UNCHANGED <<CANCELAR_PROCESSAMENTO, motor, pc, idx_global_parte, varsColeta,
                   varsFinal, sigint_handler, varsFixas>>

\* asyncio.sleep() is over (backoff or the 429 wait): next loop iteration.
Acordar(i) ==
    /\ pc = "aguardando"
    /\ tarefa[i] \in {"dormindo", "dormindo429"}
    /\ IterarLoop(i)
    /\ UNCHANGED <<CANCELAR_PROCESSAMENTO, motor, pc, idx_global_parte, varsColeta,
                   varsFinal, sigint_handler, varsFixas>>

\* ---------------------------------------------------------------- the scheduler
\* t.cancel() for every task that is not done.  A task cancelled while it
\* waits for the engine or for ffmpeg leaves whatever was written so far.
Pendentes == {i \in Partes : tarefa[i] \in {"semaforo"} \cup EstadosAdmitidos}
EmChamada == {i \in Partes : tarefa[i] \in {"tentando", "transcodificando"}}
EmEscrita == {i \in Partes : \/ motor = "edge" /\ tarefa[i] = "tentando"
                             \/ tarefa[i] = "transcodificando"}
CancelarPendentes ==
    /\ tarefa' = [i \in Partes |-> IF i \in Pendentes THEN "cancelada" ELSE tarefa[i]]
    /\ semaphore_api_calls' = semaphore_api_calls + Cardinality(Admitidas)
    /\ \E novo \in [Partes -> EstadosArquivo] :
           /\ \A i \in Partes \ EmEscrita : novo[i] = arquivo[i]
           /\ \A i \in EmEscrita : novo[i] \in ArquivosAposFalha
           /\ arquivo' = novo
    /\ tentativas' = [i \in Partes |-> IF i \in Pendentes THEN 0 ELSE tentativas[i]]
    /\ saida' = [i \in Partes |-> IF i \in EmChamada THEN "abortada"
                                   ELSE IF i \in Pendentes THEN "cancelada"
                                   ELSE saida[i]]
    /\ UNCHANGED <<fila, invocado>>

\* for idx_global_parte in range(total_partes): ... create_task(...)
CriarTarefa ==
    /\ pc = "criando"
    /\ idx_global_parte < TotalPartes
    /\ ~CanceladoNaCriacao
    /\ idx_global_parte' = idx_global_parte + 1
    /\ tarefa' = [tarefa EXCEPT ![idx_global_parte + 1] = "semaforo"]
    /\ UNCHANGED <<CANCELAR_PROCESSAMENTO, motor, pc, tentativas, saida,
                   semaphore_api_calls, fila, arquivo, invocado, varsColeta, varsFinal,
                   sigint_handler, varsFixas>>

\* The creation loop ends (exhausted or by break); `if CANCELAR_PROCESSAMENTO:
\* for t in tarefas_gerais_tts: t.cancel()`; `if tarefas_gerais_tts:`.
FimCriacao ==
    /\ pc = "criando"
    /\ idx_global_parte = TotalPartes \/ CanceladoNaCriacao
    /\ IF CanceladoNaCriacao THEN CancelarPendentes ELSE UNCHANGED varsTarefa
    /\ pc' = IF idx_global_parte > 0 THEN "topo" ELSE "verificando"
    /\ UNCHANGED <<CANCELAR_PROCESSAMENTO, motor, idx_global_parte, varsColeta, varsFinal,
                   sigint_handler, varsFixas>>

\* Mutant: the loop is left after the first collected task.
IteradorEsgotado_AposPrimeira == partes_concluidas >= 1

\* as_completed has yielded every task.
IteradorEsgotado == partes_concluidas = idx_global_parte

\* The top of `for future_task in asyncio.as_completed(...)`.
TopoLoop ==
    /\ pc = "topo"
    /\ IF CanceladoNaColeta
       THEN CancelarPendentes /\ pc' = "verificando"
       ELSE /\ pc' = IF IteradorEsgotado THEN "verificando" ELSE "aguardando"
            /\ UNCHANGED varsTarefa
    /\ UNCHANGED <<CANCELAR_PROCESSAMENTO, motor, idx_global_parte, varsColeta, varsFinal,
                   sigint_handler, varsFixas>>

\* Mutant: a failed task ends the collection (a `break` in the failure branch).
ColetarResultado_ParaNaFalha ==
    /\ pc = "aguardando"
    /\ fila # <<>>
    /\ LET i == Head(fila)
           sucesso_tarefa == ValorRetorno(saida[i])
       IN  /\ resultados_conversao' = [resultados_conversao EXCEPT ![i] = sucesso_tarefa]
           /\ partes_com_falha' = IF sucesso_tarefa THEN partes_com_falha
                                  ELSE partes_com_falha + 1
           /\ ordem_coleta' = Append(ordem_coleta, i)
           /\ pc' = IF sucesso_tarefa THEN "topo" ELSE "verificando"
    /\ fila' = Tail(fila)
    /\ partes_concluidas' = partes_concluidas + 1
    /\ UNCHANGED <<CANCELAR_PROCESSAMENTO, motor, idx_global_parte, tarefa, tentativas,
                   saida, semaphore_api_calls, arquivo, invocado, varsFinal, sigint_handler, varsFixas>>

\* Mutant: the result goes into the slot of the collection counter.
ColetarResultado_SlotPorOrdem ==
    /\ pc = "aguardando"
    /\ fila # <<>>
    /\ LET i == Head(fila)
           sucesso_tarefa == ValorRetorno(saida[i])
       IN  /\ resultados_conversao' =
                  [resultados_conversao EXCEPT ![partes_concluidas + 1] = sucesso_tarefa]
           /\ partes_com_falha' = IF sucesso_tarefa THEN partes_com_falha
                                  ELSE partes_com_falha + 1
           /\ ordem_coleta' = Append(ordem_coleta, i)
    /\ fila' = Tail(fila)
    /\ partes_concluidas' = partes_concluidas + 1
    /\ pc' = "topo"
    /\ UNCHANGED <<CANCELAR_PROCESSAMENTO, motor, idx_global_parte, tarefa, tentativas,
                   saida, semaphore_api_calls, arquivo, invocado, varsFinal,
                   sigint_handler, varsFixas>>

\* `idx_original, sucesso_tarefa = await future_task` and the bookkeeping.
ColetarResultado ==
    /\ pc = "aguardando"
    /\ fila # <<>>
    /\ LET i == Head(fila)
           sucesso_tarefa == ValorRetorno(saida[i])
       IN  /\ resultados_conversao' = [resultados_conversao EXCEPT ![i] = sucesso_tarefa]
           /\ partes_com_falha' = IF sucesso_tarefa THEN partes_com_falha
                                  ELSE partes_com_falha + 1
           /\ ordem_coleta' = Append(ordem_coleta, i)
    /\ fila' = Tail(fila)
    /\ partes_concluidas' = partes_concluidas + 1
    /\ pc' = "topo"
    /\ UNCHANGED <<CANCELAR_PROCESSAMENTO, motor, idx_global_parte, tarefa, tentativas,
                   saida, semaphore_api_calls, arquivo, invocado, varsFinal, sigint_handler, varsFixas>>

\* for i in range(total_partes): the chunks that go to the assembler.
IndicesEmOrdem == [k \in Partes |-> k]
Aprovado(i) == resultados_conversao[i] /\ ArquivoValido(arquivo[i])
\* Mutant: the list is built in the order the tasks were collected.
ListaSucesso_OrdemDeColeta == SelectSeq(ordem_coleta, Aprovado)
ListaSucesso == SelectSeq(IndicesEmOrdem, Aprovado)

\* "Verificando arquivos gerados..."
Verificar ==
    /\ pc = "verificando"
    /\ arquivos_mp3_sucesso' = ListaSucesso
    /\ resultados_conversao' = [i \in Partes |-> Aprovado(i)]
    /\ mensagens' = IF CANCELAR_PROCESSAMENTO THEN mensagens \cup {"interrompido"}
                    ELSE mensagens
    /\ pc' = "decidindo"
    /\ UNCHANGED <<CANCELAR_PROCESSAMENTO, motor, idx_global_parte, varsTarefa,
                   partes_concluidas, partes_com_falha, ordem_coleta, arquivo_final,
                   sigint_handler, varsFixas>>

\* `if arquivos_mp3_sucesso:` unificar_arquivos_audio_ffmpeg starts ffmpeg.
IniciarUnificacao ==
    /\ pc = "decidindo"
    /\ arquivos_mp3_sucesso # <<>>
    /\ pc' = "ffmpeg"
    /\ UNCHANGED <<CANCELAR_PROCESSAMENTO, motor, idx_global_parte, varsTarefa, varsColeta,
                   varsFinal, sigint_handler, varsFixas>>

\* Mutant: nothing to assemble and nothing said about it.
SemArquivos_SemMensagem ==
    /\ pc = "decidindo"
    /\ arquivos_mp3_sucesso = <<>>
    /\ pc' = "limpando"
    /\ UNCHANGED <<CANCELAR_PROCESSAMENTO, motor, idx_global_parte, varsTarefa, varsColeta,
                   varsFinal, sigint_handler, varsFixas>>

\* `elif not CANCELAR_PROCESSAMENTO: print("Nenhum arquivo de audio ...")`
SemArquivos ==
    /\ pc = "decidindo"
    /\ arquivos_mp3_sucesso = <<>>
    /\ mensagens' = IF CANCELAR_PROCESSAMENTO THEN mensagens
                    ELSE mensagens \cup {"nenhum_audio"}
    /\ pc' = "limpando"
    /\ UNCHANGED <<CANCELAR_PROCESSAMENTO, motor, idx_global_parte, varsTarefa, varsColeta,
                   arquivos_mp3_sucesso, arquivo_final, sigint_handler, varsFixas>>

Unificados == {arquivos_mp3_sucesso[k] : k \in 1..Len(arquivos_mp3_sucesso)}

\* The assembler returned False: the chunk files stay.
FalhaUnificacao ==
    /\ mensagens' = mensagens \cup {"falha_unificar"}
    /\ pc' = "limpando"
    /\ UNCHANGED <<arquivo, arquivo_final>>

\* _executar_ffmpeg_comando reads a line of ffmpeg's output with the flag set:
\* it terminates the process and returns False.
UnificacaoCancelada ==
    /\ pc = "ffmpeg"
    /\ CANCELAR_PROCESSAMENTO
    /\ FalhaUnificacao
    /\ UNCHANGED <<CANCELAR_PROCESSAMENTO, motor, idx_global_parte, tarefa, tentativas,
                   saida, semaphore_api_calls, fila, invocado, varsColeta,
                   arquivos_mp3_sucesso, sigint_handler, varsFixas>>

\* ffmpeg exits; on return code 0 the merged chunk files are deleted and,
\* with the flag unset, the user is asked whether to post-process.
UnificacaoTermina ==
    /\ pc = "ffmpeg"
    /\ \E returncode_zero \in BOOLEAN :
           IF returncode_zero
           THEN /\ arquivo_final' = arquivos_mp3_sucesso
                /\ arquivo' = [i \in Partes |-> IF i \in Unificados THEN Ausente
                                                ELSE arquivo[i]]
                /\ mensagens' = mensagens \cup {"concluida"}
                /\ pc' = IF CANCELAR_PROCESSAMENTO THEN "limpando" ELSE "confirmando"
           ELSE FalhaUnificacao
    /\ UNCHANGED <<CANCELAR_PROCESSAMENTO, motor, idx_global_parte, tarefa, tentativas,
                   saida, semaphore_api_calls, fila, invocado, varsColeta,
                   arquivos_mp3_sucesso, sigint_handler, varsFixas>>

\* obter_confirmacao gets its line of input: with the flag set it raises
\* CancelledError, which nothing in iniciar_conversao_tts catches; otherwise
\* the answer is yes or no.
obter_confirmacao ==
    /\ pc = "confirmando"
    /\ IF CANCELAR_PROCESSAMENTO
       THEN /\ pc' = "fim"
            /\ mensagens' = mensagens \cup {"entrada_cancelada"}
       ELSE /\ \E resposta \in BOOLEAN :
                   pc' = IF resposta THEN "confirmado" ELSE "limpando"
            /\ UNCHANGED mensagens
    /\ UNCHANGED <<CANCELAR_PROCESSAMENTO, motor, idx_global_parte, varsTarefa, varsColeta,
                   arquivos_mp3_sucesso, arquivo_final, sigint_handler, varsFixas>>

\* The first statement of _processar_melhoria_de_audio_video.  SIGINT is
\* handled between two bytecodes, so the flag may have been set since
\* obter_confirmacao looked at it.
IniciarMelhoria ==
    /\ pc = "confirmado"
    /\ CANCELAR_PROCESSAMENTO' = FALSE
    /\ pc' = "melhorando"
    /\ UNCHANGED <<motor, idx_global_parte, varsTarefa, varsColeta, varsFinal,
                   sigint_handler, varsFixas>>

\* _processar_melhoria_de_audio_video returns (done, failed, or on seeing the
\* flag); it touches neither the chunk files nor the bookkeeping.
FimMelhoria ==
    /\ pc = "melhorando"
    /\ pc' = "limpando"
    /\ UNCHANGED <<CANCELAR_PROCESSAMENTO, motor, idx_global_parte, varsTarefa, varsColeta,
                   varsFinal, sigint_handler, varsFixas>>

\* Mutant: the final cleanup removes every temp file.
Limpar_TodosOsTemporarios ==
    /\ pc = "limpando"
    /\ arquivo' = [i \in Partes |-> Ausente]
    /\ pc' = "fim"
    /\ UNCHANGED <<CANCELAR_PROCESSAMENTO, motor, idx_global_parte, tarefa, tentativas,
                   saida, semaphore_api_calls, fila, invocado, varsColeta, varsFinal,
                   sigint_handler, varsFixas>>

\* for i in range(total_partes): if not resultados_conversao[i]: unlink
Limpar ==
    /\ pc = "limpando"
    /\ arquivo' = [i \in Partes |-> IF ~resultados_conversao[i] THEN Ausente
                                    ELSE arquivo[i]]
    /\ pc' = "fim"
    /\ UNCHANGED <<CANCELAR_PROCESSAMENTO, motor, idx_global_parte, tarefa, tentativas,
                   saida, semaphore_api_calls, fila, invocado, varsColeta, varsFinal,
                   sigint_handler, varsFixas>>

\* ---------------------------------------------------------------- specification
Next ==
    \/ handler_sinal
    \/ CriarTarefa
    \/ FimCriacao
    \/ TopoLoop
    \/ ColetarResultado
    \/ Verificar
    \/ IniciarUnificacao
    \/ SemArquivos
    \/ UnificacaoCancelada
    \/ UnificacaoTermina
    \/ obter_confirmacao
    \/ IniciarMelhoria
    \/ FimMelhoria
    \/ Limpar
    \/ \E i \in Partes : converter_com_semaforo(i)
    \/ \E i \in Partes : RespostaEdge(i)
    \/ \E i \in Partes : RespostaGemini(i)
    \/ \E i \in Partes : TranscodificarGemini(i)
    \/ \E i \in Partes : Acordar(i)

Spec == Init /\ [][Next]_vars

\* The event loop always runs a coroutine that can run, and every engine call,
\* sleep and ffmpeg process comes back.
FairSpec == Spec /\ WF_vars(Next)

\* ---------------------------------------------------------------- one conversion
\* _converter_chunk_tts_edge / _converter_chunk_tts_gemini called for one
\* chunk on its own, with any text and anything at the output path: the task
\* of chunk 1 is the only one there is, and it is being awaited.
InitChunk ==
    /\ CANCELAR_PROCESSAMENTO = FALSE
    /\ motor \in Motores
    /\ pc = "aguardando"
    /\ idx_global_parte = 1
    /\ tarefa = [i \in Partes |-> IF i = 1 THEN "semaforo" ELSE "nao_criada"]
    /\ tentativas = [i \in Partes |-> 0]
    /\ saida = [i \in Partes |-> "nenhuma"]
    /\ semaphore_api_calls = LoteMaximo
    /\ fila = <<>>
    /\ \E f \in EstadosArquivo : arquivo = [i \in Partes |-> IF i = 1 THEN f ELSE Ausente]
    /\ inicial = arquivo
    /\ resultados_conversao = [i \in Partes |-> FALSE]
    /\ partes_concluidas = 0
    /\ partes_com_falha = 0
    /\ arquivos_mp3_sucesso = <<>>
    /\ arquivo_final = <<>>
    /\ mensagens = {}
    /\ invocado = [i \in Partes |-> FALSE]
    /\ ordem_coleta = <<>>
    /\ sigint_handler = "handler_sinal"
    /\ \E v \in BOOLEAN : texto_vazio = [i \in Partes |-> i = 1 /\ v]
    /\ espera = EsperaParada
    /\ processo = ProcessoParado
    /\ divisao = DivisaoParada
    /\ lite = LiteParado
    /\ tts3 = Tts3Parado
    /\ formatacao = FormatacaoParada

NextChunk ==
    \/ handler_sinal
    \/ \E i \in Partes : converter_com_semaforo(i)
    \/ \E i \in Partes : RespostaEdge(i)
    \/ \E i \in Partes : RespostaGemini(i)
    \/ \E i \in Partes : TranscodificarGemini(i)
    \/ \E i \in Partes : Acordar(i)

SpecChunk == InitChunk /\ [][NextChunk]_vars

\* ---------------------------------------------------------------- the waits
\* The retry loop of one chunk, reduced to what decides how long it sleeps:
\* the engine, the counter `tentativas`, and what the last attempt came back
\* with.  Times are in milliseconds.

\* How far the counter is followed.
MaxFalhas == 11
\* How many 429 answers in a row are told apart.
Max429 == 2
\* The ceiling of the backoff, in seconds.
TetoEspera == 20

Segundos(n) == n * 1000

\* random.uniform(0, 1): 0 + (1 - 0) * random(), and random() is below 1.
Jitters == {0, 500, 999}

RECURSIVE Potencia(_, _)
Potencia(b, n) == IF n = 0 THEN 1 ELSE b * Potencia(b, n - 1)

\* A conversion run leaves all of this alone, and these functions leave the
\* run alone.
varsConversao == <<CANCELAR_PROCESSAMENTO, motor, pc, idx_global_parte, varsTarefa,
                   varsColeta, varsFinal, inicial, sigint_handler, texto_vazio>>

\* No conversion run in progress: iniciar_conversao_tts is at p.
Repouso(p) ==
    /\ CANCELAR_PROCESSAMENTO = FALSE
    /\ motor = "edge"
    /\ pc = p
    /\ idx_global_parte = 0
    /\ tarefa = [i \in Partes |-> "nao_criada"]
    /\ tentativas = [i \in Partes |-> 0]
    /\ saida = [i \in Partes |-> "nenhuma"]
    /\ semaphore_api_calls = LoteMaximo
    /\ fila = <<>>
    /\ arquivo = [i \in Partes |-> Ausente]
    /\ inicial = arquivo
    /\ resultados_conversao = [i \in Partes |-> FALSE]
    /\ partes_concluidas = 0
    /\ partes_com_falha = 0
    /\ arquivos_mp3_sucesso = <<>>
    /\ arquivo_final = <<>>
    /\ mensagens = {}
    /\ invocado = [i \in Partes |-> FALSE]
    /\ ordem_coleta = <<>>
    /\ sigint_handler = "handler_sinal"
    /\ texto_vazio = [i \in Partes |-> FALSE]

\* float(): the decimal numerals the model reads, as milliseconds; -1 stands
\* for ValueError.
Digitos == <<"0", "1", "2", "3", "4", "5", "6", "7", "8", "9">>
EhDigito(c) == \E k \in 1..10 : Digitos[k] = c
ValorDigito(c) == (CHOOSE k \in 1..10 : Digitos[k] = c) - 1
RECURSIVE ValorInteiro(_)
ValorInteiro(s) ==
    IF s = <<>> THEN 0
    ELSE 10 * ValorInteiro(SubSeq(s, 1, Len(s) - 1)) + ValorDigito(s[Len(s)])
EhPonto(c) == c = "."
Milesimos(f) == ValorInteiro(SubSeq(f \o <<"0", "0", "0">>, 1, 3))
float(s) ==
    LET pontos == SelectSeq(s, EhPonto)
        digitos == SelectSeq(s, EhDigito)
    IN  IF \/ Len(pontos) > 1
           \/ digitos = <<>>
           \/ Len(digitos) + Len(pontos) # Len(s)
        THEN -1
        ELSE IF pontos = <<>> THEN Segundos(ValorInteiro(s))
        ELSE LET p == CHOOSE k \in 1..Len(s) : s[k] = "."
             IN  Segundos(ValorInteiro(SubSeq(s, 1, p - 1)))
                     + Milesimos(SubSeq(s, p + 1, Len(s)))

\* delay_str.replace('s', '')
NaoEhS(c) == c # "s"
replace_s(delay_str) == SelectSeq(delay_str, NaoEhS)

\* The `details` of a 429 body: no RetryInfo entry, or one with its retryDelay.
RetryDelays == {<<"3", "0", "s">>, <<"1", ".", "5", "s">>, <<"0", "s">>, <<"x">>}
Details == {<<>>} \cup {<<d>> : d \in RetryDelays}

\* wait_time after the try block of the 429 branch: 0 unless a RetryInfo
\* entry was found and its delay parsed.
wait_time_api(details) ==
    IF details = <<>> THEN 0
    ELSE LET v == float(replace_s(details[1]))
         IN  IF v < 0 THEN 0 ELSE v

\* Mutant: the 429 branch always falls back to its own short wait.
wait_time_429_SoFallback(details, t, jitter) == Segundos(Potencia(1, t)) + jitter

\* The sleep of the 429 branch.
wait_time_429(details, t, jitter) ==
    IF wait_time_api(details) = 0
    THEN Segundos(Potencia(1, t)) + jitter
    ELSE wait_time_api(details)

\* wait_time = min(2 * tentativas, 20)
wait_time_edge(t) == Min(Segundos(2 * t), Segundos(TetoEspera))

\* wait_time_exp = min((2 ** tentativas) + random.uniform(0, 1), 20)
wait_time_exp(t, jitter) == Min(Segundos(Potencia(2, t)) + jitter, Segundos(TetoEspera))

InitEspera ==
    /\ Repouso("fim")
    /\ \E m \in Motores : espera = [EsperaParada EXCEPT !.motor = m]
    /\ processo = ProcessoParado
    /\ divisao = DivisaoParada
    /\ lite = LiteParado
    /\ tts3 = Tts3Parado
    /\ formatacao = FormatacaoParada

\* An Edge attempt fails: `tentativas += 1` and the backoff.
FalhaEdge ==
    /\ espera.motor = "edge"
    /\ espera.tentativas < MaxFalhas
    /\ LET t == espera.tentativas + 1
       IN  espera' = [espera EXCEPT !.tentativas = t, !.causa = "falha",
                                    !.seguidas = 0, !.wait_time = wait_time_edge(t)]
    /\ UNCHANGED <<varsConversao, processo, divisao, lite, tts3, formatacao>>

\* A Gemini attempt fails with something other than 429.
FalhaGemini ==
    /\ espera.motor = "gemini"
    /\ espera.tentativas < MaxFalhas
    /\ \E jitter \in Jitters :
           LET t == espera.tentativas + 1
           IN  espera' = [espera EXCEPT !.tentativas = t, !.causa = "falha",
                                        !.seguidas = 0,
                                        !.wait_time = wait_time_exp(t, jitter)]
    /\ UNCHANGED <<varsConversao, processo, divisao, lite, tts3, formatacao>>

\* A Gemini attempt is answered 429: the wait, then `continue`.
Resposta429 ==
    /\ espera.motor = "gemini"
    /\ \E details \in Details, jitter \in Jitters :
           espera' = [espera EXCEPT
                          !.causa = "429",
                          !.details = details,
                          !.seguidas = Min(espera.seguidas + 1, Max429),
                          !.wait_time = wait_time_429(details, espera.tentativas, jitter)]
    /\ UNCHANGED <<varsConversao, processo, divisao, lite, tts3, formatacao>>

NextEspera ==
    \/ FalhaEdge
    \/ FalhaGemini
    \/ Resposta429

SpecEspera == InitEspera /\ [][NextEspera]_vars

\* ---------------------------------------------------------------- ffmpeg
\* One call of _executar_ffmpeg_comando and the process it starts.
\*   fase:    where the function is ("popen", "lendo": in the readline loop,
\*            "esperando": in process.wait(timeout=5), "retornou")
\*   estado:  the process ("rodando", "saiu_0", "saiu_erro": exited by
\*            itself, "terminado": exited on SIGTERM, "morto": SIGKILL)
\*   pipe:    lines of stderr written and not yet read
\*   visto:   the function has read the flag as set
\* SIGINT may set the flag at any moment (handler_sinal).

\* How many lines ffmpeg writes at most.
MaxLinhas == 3

InitFfmpeg ==
    /\ Repouso("ffmpeg")
    /\ processo = [ProcessoParado EXCEPT !.fase = "popen"]
    /\ espera = EsperaParada
    /\ divisao = DivisaoParada
    /\ lite = LiteParado
    /\ tts3 = Tts3Parado
    /\ formatacao = FormatacaoParada

\* subprocess.Popen: the process starts, or FileNotFoundError -> return False.
Popen ==
    /\ processo.fase = "popen"
    /\ \E encontrado \in BOOLEAN :
           processo' = IF encontrado
                       THEN [processo EXCEPT !.fase = "lendo", !.estado = "rodando"]
                       ELSE [processo EXCEPT !.fase = "retornou", !.retorno = "False"]
    /\ UNCHANGED <<varsConversao, espera, divisao, lite, tts3, formatacao>>

\* ffmpeg writes a line to stderr.
EscreverLinha ==
    /\ processo.estado = "rodando"
    /\ processo.escritas < MaxLinhas
    /\ processo' = [processo EXCEPT !.pipe = @ + 1, !.escritas = @ + 1]
    /\ UNCHANGED <<varsConversao, espera, divisao, lite, tts3, formatacao>>

\* ffmpeg exits by itself, with return code 0 or not.
ProcessoSai ==
    /\ processo.estado = "rodando"
    /\ \E e \in {"saiu_0", "saiu_erro"} : processo' = [processo EXCEPT !.estado = e]
    /\ UNCHANGED <<varsConversao, espera, divisao, lite, tts3, formatacao>>

\* ffmpeg exits on the SIGTERM it was sent.
ProcessoAtendeTerminate ==
    /\ processo.estado = "rodando"
    /\ processo.terminate
    /\ processo' = [processo EXCEPT !.estado = "terminado"]
    /\ UNCHANGED <<varsConversao, espera, divisao, lite, tts3, formatacao>>

\* readline() returns a line: `if CANCELAR_PROCESSAMENTO:` process.terminate()
\* and into process.wait(timeout=5); otherwise the progress display.
LerLinha ==
    /\ processo.fase = "lendo"
    /\ processo.pipe > 0
    /\ processo' = IF CANCELAR_PROCESSAMENTO
                   THEN [processo EXCEPT !.pipe = @ - 1, !.visto = TRUE,
                                         !.terminate = TRUE, !.fase = "esperando"]
                   ELSE [processo EXCEPT !.pipe = @ - 1]
    /\ UNCHANGED <<varsConversao, espera, divisao, lite, tts3, formatacao>>

\* process.wait(timeout=5) returns: the process has exited.
EsperaRetorna ==
    /\ processo.fase = "esperando"
    /\ processo.estado # "rodando"
    /\ processo' = [processo EXCEPT !.fase = "retornou", !.retorno = "False"]
    /\ UNCHANGED <<varsConversao, espera, divisao, lite, tts3, formatacao>>

\* Mutant: the timeout is not followed by kill().
TimeoutExpired_SemKill ==
    /\ processo.fase = "esperando"
    /\ processo.estado = "rodando"
    /\ processo' = [processo EXCEPT !.fase = "retornou", !.retorno = "False"]
    /\ UNCHANGED <<varsConversao, espera, divisao, lite, tts3, formatacao>>

\* subprocess.TimeoutExpired: process.kill(), then `return False`.
TimeoutExpired ==
    /\ processo.fase = "esperando"
    /\ processo.estado = "rodando"
    /\ processo' = [processo EXCEPT !.kill = TRUE, !.estado = "morto",
                                    !.fase = "retornou", !.retorno = "False"]
    /\ UNCHANGED <<varsConversao, espera, divisao, lite, tts3, formatacao>>

\* readline() returns '' (the process has exited and the pipe is empty):
\* process.wait() and the return code.
FimDaSaida ==
    /\ processo.fase = "lendo"
    /\ processo.pipe = 0
    /\ processo.estado # "rodando"
    /\ processo' = [processo EXCEPT
                        !.fase = "retornou",
                        !.retorno = IF processo.estado = "saiu_0" THEN "True" ELSE "False"]
    /\ UNCHANGED <<varsConversao, espera, divisao, lite, tts3, formatacao>>

NextFfmpeg ==
    \/ handler_sinal
    \/ Popen
    \/ EscreverLinha
    \/ ProcessoSai
    \/ ProcessoAtendeTerminate
    \/ LerLinha
    \/ EsperaRetorna
    \/ TimeoutExpired
    \/ FimDaSaida

SpecFfmpeg == InitFfmpeg /\ [][NextFfmpeg]_vars

\* ---------------------------------------------------------------- segmentation
\* dividir_texto_para_tts.  A text is a sequence of characters.  A piece of
\* the result is kept with two marks the list of strings does not have:
\* whether it is a slice of a sentence longer than the limit, and whether it
\* is the last slice of that sentence.

\* The longest text and the largest limit looked at.
MaxTexto == 6
MaxLimite == 3

Alfabeto == {"a", "b", " ", ".", "\n"}
Textos == UNION {[1..n -> Alfabeto] : n \in 0..MaxTexto}

\* str.isspace, and the class [.!?...] of the sentence delimiters
EhEspaco(c) == c \in {" ", "\n"}
EhDelimitador(c) == c \in {".", "!", "?"}

\* str.strip()
RECURSIVE lstrip(_)
lstrip(s) == IF s # <<>> /\ EhEspaco(Head(s)) THEN lstrip(Tail(s)) ELSE s
RECURSIVE rstrip(_)
rstrip(s) ==
    IF s # <<>> /\ EhEspaco(s[Len(s)]) THEN rstrip(SubSeq(s, 1, Len(s) - 1)) ELSE s
strip(s) == rstrip(lstrip(s))

\* texto_processado.split('\n\n')
Quebras(s) == {k \in 1..(Len(s) - 1) : s[k] = "\n" /\ s[k + 1] = "\n"}
Menor(S) == CHOOSE k \in S : \A m \in S : k <= m
RECURSIVE split(_)
split(s) ==
    IF Quebras(s) = {} THEN <<s>>
    ELSE LET k == Menor(Quebras(s))
         IN  <<SubSeq(s, 1, k - 1)>> \o split(SubSeq(s, k + 2, Len(s)))

\* re.split(r'([.!?...]+)', p_strip): text, run of delimiters, text, ...
PosDelimitadores(s) == {k \in 1..Len(s) : EhDelimitador(s[k])}
RECURSIVE FimDaSequencia(_, _)
FimDaSequencia(s, k) ==
    IF k < Len(s) /\ EhDelimitador(s[k + 1]) THEN FimDaSequencia(s, k + 1) ELSE k
RECURSIVE re_split(_)
re_split(s) ==
    IF PosDelimitadores(s) = {} THEN <<s>>
    ELSE LET k == Menor(PosDelimitadores(s))
             m == FimDaSequencia(s, k)
         IN  <<SubSeq(s, 1, k - 1), SubSeq(s, k, m)>> \o re_split(SubSeq(s, m + 1, Len(s)))

Pedaco(t) == [texto |-> t, fatia |-> FALSE, ultima |-> FALSE]

\* Mutant: slices one character longer than the limit.
RECURSIVE Fatiar_UmAMais(_, _)
Fatiar_UmAMais(trecho, limite) ==
    IF Len(trecho) <= limite + 1
    THEN <<[texto |-> trecho, fatia |-> TRUE, ultima |-> TRUE]>>
    ELSE <<[texto |-> SubSeq(trecho, 1, limite + 1), fatia |-> TRUE, ultima |-> FALSE]>>
             \o Fatiar_UmAMais(SubSeq(trecho, limite + 2, Len(trecho)), limite)

\* for i in range(0, len(trecho_completo), limite): trecho_completo[i:i+limite]
RECURSIVE Fatiar(_, _)
Fatiar(trecho, limite) ==
    IF Len(trecho) <= limite
    THEN <<[texto |-> trecho, fatia |-> TRUE, ultima |-> TRUE]>>
    ELSE <<[texto |-> SubSeq(trecho, 1, limite), fatia |-> TRUE, ultima |-> FALSE]>>
             \o Fatiar(SubSeq(trecho, limite + 1, Len(trecho)), limite)

\* The while loop over frases_com_delimitadores, from idx_frase on (1-based),
\* and the flush after it; gives what is appended to partes_finais.
RECURSIVE Empacotar(_, _, _, _)
Empacotar(frases, idx_frase, segmento_atual, limite) ==
    IF idx_frase > Len(frases)
    THEN IF segmento_atual # <<>> THEN <<Pedaco(segmento_atual)>> ELSE <<>>
    ELSE LET frase_atual == strip(frases[idx_frase])
             delimitador == IF idx_frase + 1 <= Len(frases)
                            THEN strip(frases[idx_frase + 1]) ELSE <<>>
             trecho_completo == strip(frase_atual \o delimitador)
             proximo == idx_frase + (IF delimitador # <<>> THEN 2 ELSE 1)
         IN  IF trecho_completo = <<>>
             THEN Empacotar(frases, proximo, segmento_atual, limite)
             ELSE IF Len(segmento_atual) + Len(trecho_completo) + 1 <= limite
             THEN Empacotar(frases, proximo,
                            segmento_atual
                                \o (IF segmento_atual # <<>> THEN <<" ">> ELSE <<>>)
                                \o trecho_completo,
                            limite)
             ELSE (IF segmento_atual # <<>> THEN <<Pedaco(segmento_atual)>> ELSE <<>>)
                      \o (IF Len(trecho_completo) > limite
                          THEN Fatiar(trecho_completo, limite)
                                   \o Empacotar(frases, proximo, <<>>, limite)
                          ELSE Empacotar(frases, proximo, trecho_completo, limite))

\* Mutant: a paragraph within the limit is not emitted.
PartesDoParagrafo_SemCurtos(p_inicial, limite) ==
    LET p_strip == strip(p_inicial)
    IN  IF p_strip = <<>> \/ Len(p_strip) <= limite THEN <<>>
        ELSE Empacotar(re_split(p_strip), 1, <<>>, limite)

\* The body of `for p_inicial in partes_iniciais`.
PartesDoParagrafo(p_inicial, limite) ==
    LET p_strip == strip(p_inicial)
    IN  IF p_strip = <<>> THEN <<>>
        ELSE IF Len(p_strip) <= limite THEN <<Pedaco(p_strip)>>
        ELSE Empacotar(re_split(p_strip), 1, <<>>, limite)

RECURSIVE PartesFinais(_, _)
PartesFinais(partes_iniciais, limite) ==
    IF partes_iniciais = <<>> THEN <<>>
    ELSE PartesDoParagrafo(Head(partes_iniciais), limite)
             \o PartesFinais(Tail(partes_iniciais), limite)

\* [p for p in partes_finais if p.strip()]
TemTexto(p) == strip(p.texto) # <<>>
dividir_texto_para_tts(texto_processado, limite_caracteres) ==
    SelectSeq(PartesFinais(split(texto_processado), limite_caracteres), TemTexto)

InitDividir ==
    /\ Repouso("fim")
    /\ \E t \in Textos, l \in 1..MaxLimite :
           divisao = [fase |-> "chamada", texto_processado |-> t, limite_caracteres |-> l,
                      partes |-> <<>>]
    /\ espera = EsperaParada
    /\ processo = ProcessoParado
    /\ lite = LiteParado
    /\ tts3 = Tts3Parado
    /\ formatacao = FormatacaoParada

\* The call returns its list.
Dividir ==
    /\ divisao.fase = "chamada"
    /\ divisao' = [divisao EXCEPT
                       !.fase = "retornou",
                       !.partes = dividir_texto_para_tts(divisao.texto_processado,
                                                         divisao.limite_caracteres)]
    /\ UNCHANGED <<varsConversao, espera, processo, lite, tts3, formatacao>>

NextDividir == Dividir

SpecDividir == InitDividir /\ [][NextDividir]_vars

\* ---------------------------------------------------------------- file names
\* f"{i+1:04d}": the decimal digits of the chunk number, zero-padded to four.
RECURSIVE DigitosDe(_)
DigitosDe(n) ==
    IF n < 10 THEN <<Digitos[n + 1]>>
    ELSE DigitosDe(n \div 10) \o <<Digitos[(n % 10) + 1]>>
Formatar04d(n) ==
    LET d == DigitosDe(n)
    IN  IF Len(d) >= 4 THEN d
        ELSE SubSeq(<<"0", "0", "0">>, 1, 4 - Len(d)) \o d
\* arquivos_mp3_temporarios_nomes[i - 1], less the part all names share.
NomeTemporario(i) == Formatar04d(i)

\* ---------------------------------------------------------------- conversor_tts_lite
\* processar_audio of conversor_tts_lite.py: a sequential loop over the chunks
\* of one text, started once or more for the same output file.  The text, and
\* so the list `partes`, is the same in every run (TotalPartes chunks).  A
\* part file is identified by its chunk index; lite.sintetizadas,
\* lite.esgotadas and lite.interrompida are history: the chunks whose audio
\* some run produced, the chunks some run gave up on, and whether some run
\* was interrupted at the top of its loop.

\* How many times processar_audio is started for the same output file.
MaxExecucoes == 2
\* max_tentativas, the attempts processar_audio gives one chunk
max_tentativas == 5

\* str(indice)
str(indice) == DigitosDe(indice)

\* gravar_progresso: the file is rewritten with str(indice).
gravar_progresso(indice) == [existe |-> TRUE, conteudo |-> str(indice)]

\* ler_progresso: int(f.read().strip()), and 0 on any exception (no file, or
\* a content that is no number).
ler_progresso(arquivo_progresso) ==
    IF ~arquivo_progresso.existe THEN 0
    ELSE LET s == strip(arquivo_progresso.conteudo)
         IN  IF s = <<>> \/ SelectSeq(s, EhDigito) # s THEN 0 ELSE ValorInteiro(s)

\* The unification loop, the same in processar_audio and tratar_interrupcao:
\* arquivo_saida is opened with 'wb' and receives the parts of temp_files
\* that exist, in list order; each part is removed after it was copied.
Unificar(l) ==
    LET Existe(t) == t \in l.arquivos_temp
    IN  [l EXCEPT !.arquivo_saida = [existe |-> TRUE,
                                     conteudo |-> SelectSeq(l.temp_files, Existe)],
                  !.arquivos_temp = @ \ {l.temp_files[k] : k \in DOMAIN l.temp_files}]

\* After the loop: unify unless the flag is set or the parts are to be kept;
\* the progress file goes with a unification.
FimDoLaco(l) ==
    IF l.interrupcao_requisitada THEN [l EXCEPT !.fase = "retornou", !.retorno = FALSE]
    ELSE IF ~l.manter_separado
    THEN [Unificar(l) EXCEPT !.arquivo_progresso = ArquivoInexistente,
                             !.fase = "retornou", !.retorno = TRUE]
    ELSE [l EXCEPT !.fase = "retornou", !.retorno = TRUE]

\* The loop from the top of the iteration of chunk i to the next suspension:
\* the end of the loop; or `interrupcao_requisitada or verificar_interrupcao()`
\* (tecla_q: 'q' is waiting on the keyboard), which writes i - 1 to the
\* progress file and asks what to do; or the first attempt of chunk i.
ContinuarLaco(l, i, tecla_q) ==
    IF i > TotalPartes THEN FimDoLaco([l EXCEPT !.i = i])
    ELSE IF l.interrupcao_requisitada \/ tecla_q
    THEN [l EXCEPT !.i = i, !.interrupcao_requisitada = TRUE,
                   !.arquivo_progresso = gravar_progresso(i - 1),
                   !.fase = "tratar_interrupcao", !.interrompida = TRUE]
    ELSE [l EXCEPT !.i = i, !.tentativa = 1, !.fase = "salvando"]

varsLite == <<varsConversao, espera, processo, divisao, tts3, formatacao>>

\* The program was started and no conversion was asked for yet; the output
\* directory is new.
InitLite ==
    /\ Repouso("fim")
    /\ espera = EsperaParada
    /\ processo = ProcessoParado
    /\ divisao = DivisaoParada
    /\ tts3 = Tts3Parado
    /\ formatacao = FormatacaoParada
    /\ lite = [LiteParado EXCEPT !.fase = "menu"]

\* processar_audio up to its first suspension, for the same text and output
\* file as before: the user's preference, validar_texto_pt_br (which may end
\* the call), the flag reset, the index read from the progress file, a new
\* temp_files, and the loop.
processar_audio ==
    /\ lite.fase \in {"menu", "retornou", "saiu"}
    /\ lite.execucoes < MaxExecucoes
    /\ \E manter_separado \in BOOLEAN, validado \in BOOLEAN, tecla_q \in BOOLEAN :
           lite' = IF ~validado
                   THEN [lite EXCEPT !.execucoes = @ + 1, !.manter_separado = manter_separado,
                                     !.fase = "retornou", !.retorno = FALSE]
                   ELSE ContinuarLaco(
                            [lite EXCEPT !.execucoes = @ + 1,
                                         !.manter_separado = manter_separado,
                                         !.interrupcao_requisitada = FALSE,
                                         !.indice_inicial = ler_progresso(lite.arquivo_progresso),
                                         !.temp_files = <<>>,
                                         !.tentativa = 0],
                            ler_progresso(lite.arquivo_progresso) + 1, tecla_q)
    /\ UNCHANGED varsLite

\* `await comunicador.save(arquivo_temp)` returns: the part is on disk and in
\* temp_files, the progress file holds i, and the loop goes on with i + 1.
SalvarComSucesso ==
    /\ lite.fase = "salvando"
    /\ \E tecla_q \in BOOLEAN :
           lite' = ContinuarLaco(
                       [lite EXCEPT !.arquivos_temp = @ \cup {lite.i},
                                    !.temp_files = Append(@, lite.i),
                                    !.arquivo_progresso = gravar_progresso(lite.i),
                                    !.sintetizadas = @ \cup {lite.i}],
                       lite.i + 1, tecla_q)
    /\ UNCHANGED varsLite

\* The attempt raises: a sleep of 2 ** tentativa and another attempt, or after
\* max_tentativas the message and the next chunk.
SalvarComErro ==
    /\ lite.fase = "salvando"
    /\ \E tecla_q \in BOOLEAN :
           lite' = IF lite.tentativa < max_tentativas
                   THEN [lite EXCEPT !.fase = "dormindo"]
                   ELSE ContinuarLaco([lite EXCEPT !.esgotadas = @ \cup {lite.i}],
                                      lite.i + 1, tecla_q)
    /\ UNCHANGED varsLite

\* The sleep between two attempts ends.
AcordarLite ==
    /\ lite.fase = "dormindo"
    /\ lite' = [lite EXCEPT !.tentativa = @ + 1, !.fase = "salvando"]
    /\ UNCHANGED varsLite

\* SIGINT: the first one sets the flag, the second one is sys.exit(1).
tratar_sinal_interrupcao ==
    /\ lite.fase \in {"salvando", "dormindo", "tratar_interrupcao"}
    /\ lite' = IF lite.interrupcao_requisitada
               THEN [lite EXCEPT !.fase = "saiu"]
               ELSE [lite EXCEPT !.interrupcao_requisitada = TRUE]
    /\ UNCHANGED varsLite

\* tratar_interrupcao with the user's two answers: what to do with the parts
\* of this run, and whether the progress file stays.  Option 1 returns to the
\* menu (processar_audio returns False), the others end the program.
tratar_interrupcao ==
    /\ lite.fase = "tratar_interrupcao"
    /\ \E opcao \in 1..4, opcao_prog \in 1..2 :
           LET partes_tratadas ==
                   IF opcao = 3 THEN Unificar(lite)
                   ELSE IF opcao = 4
                   THEN [lite EXCEPT !.arquivos_temp =
                             @ \ {lite.temp_files[k] : k \in DOMAIN lite.temp_files}]
                   ELSE lite
               progresso_tratado ==
                   IF partes_tratadas.arquivo_progresso.existe /\ opcao_prog = 2
                   THEN [partes_tratadas EXCEPT !.arquivo_progresso = ArquivoInexistente]
                   ELSE partes_tratadas
           IN  lite' = IF opcao = 1
                       THEN [progresso_tratado EXCEPT !.fase = "retornou", !.retorno = FALSE]
                       ELSE [progresso_tratado EXCEPT !.fase = "saiu"]
    /\ UNCHANGED varsLite

NextLite ==
    \/ processar_audio
    \/ SalvarComSucesso
    \/ SalvarComErro
    \/ AcordarLite
    \/ tratar_sinal_interrupcao
    \/ tratar_interrupcao

SpecLite == InitLite /\ [][NextLite]_vars

\* ---------------------------------------------------------------- TTS3
\* iniciar_conversao of TTS3.py from `results = await asyncio.gather(*tasks)`
\* on: the chunk tasks (processar_chunk) and, inside each, the calls of
\* converter_texto_para_audio.  tts3.chunk[i].tentativa is processar_chunk's
\* counter, .tentativas is converter_texto_para_audio's; .invocacoes is
\* history: how often `communicate.save` was called for the chunk.

\* How many chunks the text has.
TotalPartesTTS3 == 2
PartesTTS3 == 1..TotalPartesTTS3
\* MAX_TENTATIVAS
MAX_TENTATIVAS == 3
\* asyncio.Semaphore(5)
SemaforoTTS3 == 5

ChunkNaoIniciado == [fase |-> "semaforo", vazio |-> FALSE, tentativa |-> 0, tentativas |-> 0,
                     invocacoes |-> 0, saida_temp |-> "ausente", retorno |-> "nenhum"]

varsTTS3 == <<varsConversao, espera, processo, divisao, lite, formatacao>>

\* The tasks were created and none has run; a chunk may be blank (the check
\* `if not texto.strip()` of converter_texto_para_audio).
InitTTS3 ==
    /\ Repouso("fim")
    /\ espera = EsperaParada
    /\ processo = ProcessoParado
    /\ divisao = DivisaoParada
    /\ lite = LiteParado
    /\ formatacao = FormatacaoParada
    /\ \E vazios \in SUBSET PartesTTS3 :
           tts3 = [fase |-> "gather", CANCELAR_PROCESSAMENTO |-> FALSE,
                   semaphore |-> SemaforoTTS3,
                   chunk |-> [i \in PartesTTS3 |->
                                 [ChunkNaoIniciado EXCEPT !.vazio = i \in vazios]]]

\* processar_chunk returns: the `async with` block is left.
RetornarTTS3(t, i, c, valor) ==
    [t EXCEPT !.semaphore = @ + 1,
              !.chunk[i] = [c EXCEPT !.fase = "retornou", !.retorno = valor]]

\* processar_chunk from the top of `while tentativa <= MAX_TENTATIVAS` to the
\* next suspension: the definitive failure, the cancellation, or a call of
\* converter_texto_para_audio, which starts with tentativas = 0 and returns
\* False at once for a blank text (then `tentativa += 1` and the sleep) or
\* calls the engine.
TopoDoWhile(t, i, c) ==
    IF c.tentativa > MAX_TENTATIVAS THEN RetornarTTS3(t, i, c, "False")
    ELSE IF t.CANCELAR_PROCESSAMENTO THEN RetornarTTS3(t, i, c, "None")
    ELSE IF c.vazio
    THEN [t EXCEPT !.chunk[i] = [c EXCEPT !.tentativas = 0, !.tentativa = @ + 1,
                                          !.fase = "sleep_chunk"]]
    ELSE [t EXCEPT !.chunk[i] = [c EXCEPT !.tentativas = 0, !.invocacoes = @ + 1,
                                          !.fase = "salvando"]]

\* `async with semaphore`: the task gets a slot, checks the flag and enters
\* the loop with tentativa = 1.
AdquirirSemaforo(i) ==
    /\ tts3.chunk[i].fase = "semaforo"
    /\ tts3.semaphore > 0
    /\ LET t == [tts3 EXCEPT !.semaphore = @ - 1]
           c == tts3.chunk[i]
       IN  tts3' = IF t.CANCELAR_PROCESSAMENTO THEN RetornarTTS3(t, i, c, "None")
                   ELSE TopoDoWhile(t, i, [c EXCEPT !.tentativa = 1])
    /\ UNCHANGED varsTTS3

\* communicate.save returned and left a file of more than 1024 bytes:
\* converter_texto_para_audio returns True, and so does processar_chunk.
SaveValido(i) ==
    /\ tts3.chunk[i].fase = "salvando"
    /\ tts3' = RetornarTTS3(tts3, i, [tts3.chunk[i] EXCEPT !.saida_temp = "valido"], "True")
    /\ UNCHANGED varsTTS3

\* communicate.save returned and left no file or a small one: the file is
\* removed, converter_texto_para_audio returns False, processar_chunk counts
\* the attempt and sleeps.
SavePequeno(i) ==
    /\ tts3.chunk[i].fase = "salvando"
    /\ tts3' = [tts3 EXCEPT !.chunk[i].saida_temp = "ausente",
                            !.chunk[i].tentativa = @ + 1,
                            !.chunk[i].fase = "sleep_chunk"]
    /\ UNCHANGED varsTTS3

\* communicate.save raised: converter_texto_para_audio counts the attempt,
\* removes the file and sleeps, or after MAX_TENTATIVAS leaves its loop and
\* returns False to processar_chunk.
SaveExcecao(i) ==
    /\ tts3.chunk[i].fase = "salvando"
    /\ LET c == [tts3.chunk[i] EXCEPT !.tentativas = @ + 1, !.saida_temp = "ausente"]
       IN  tts3' = IF c.tentativas < MAX_TENTATIVAS
                   THEN [tts3 EXCEPT !.chunk[i] = [c EXCEPT !.fase = "sleep_converter"]]
                   ELSE [tts3 EXCEPT !.chunk[i] = [c EXCEPT !.tentativa = @ + 1,
                                                            !.fase = "sleep_chunk"]]
    /\ UNCHANGED varsTTS3

\* The sleep of converter_texto_para_audio ends: its loop calls the engine again.
AcordarConverter(i) ==
    /\ tts3.chunk[i].fase = "sleep_converter"
    /\ tts3' = [tts3 EXCEPT !.chunk[i].invocacoes = @ + 1, !.chunk[i].fase = "salvando"]
    /\ UNCHANGED varsTTS3

\* The sleep of processar_chunk ends.
AcordarChunk(i) ==
    /\ tts3.chunk[i].fase = "sleep_chunk"
    /\ tts3' = TopoDoWhile(tts3, i, tts3.chunk[i])
    /\ UNCHANGED varsTTS3

\* SIGINT while the tasks run: TTS3's handler_sinal sets the flag.
handler_sinal_TTS3 ==
    /\ \E i \in PartesTTS3 : tts3.chunk[i].fase # "retornou"
    /\ ~tts3.CANCELAR_PROCESSAMENTO
    /\ tts3' = [tts3 EXCEPT !.CANCELAR_PROCESSAMENTO = TRUE]
    /\ UNCHANGED varsTTS3

NextTTS3 ==
    \/ \E i \in PartesTTS3 :
           \/ AdquirirSemaforo(i)
           \/ SaveValido(i)
           \/ SavePequeno(i)
           \/ SaveExcecao(i)
           \/ AcordarConverter(i)
           \/ AcordarChunk(i)
    \/ handler_sinal_TTS3

SpecTTS3 == InitTTS3 /\ [][NextTTS3]_vars

\* ---------------------------------------------------------------- the normalizer
\* formatar_texto_para_tts and its passes, on texts of one line (the header
\* pass also on texts of several paragraphs).  The texts have letters,
\* digits, "$", ",", ".", spaces and newlines: none has a tab, a form feed,
\* one of the symbols * _ # @ [ ] ( ) { } \, or one of "-", ":", "/", so the
\* passes that only look for those leave every text as it is:
\* unicodedata.normalize and the two replacements before the first
\* `[ \t]+`, _remover_metadados_pdf, _corrigir_hifenizacao_quebras,
\* padrao_extenso_titulo, and the range of numbers (`\d+ - \d+`).

\* The characters of a string literal.
Chars(s) == [i \in 1..Len(s) |-> SubSeq(s, i, i)]

\* str.lower, str.upper, str.isupper, str.capitalize; \w (no text has "_")
Minusculas == Chars("abcdefghijklmnopqrstuvwxyzáéíóúâêôãõç")
Maiusculas == Chars("ABCDEFGHIJKLMNOPQRSTUVWXYZÁÉÍÓÚÂÊÔÃÕÇ")
Trocar(s, de, para) ==
    [k \in 1..Len(s) |->
        IF \E j \in 1..Len(de) : de[j] = s[k]
        THEN para[CHOOSE j \in 1..Len(de) : de[j] = s[k]]
        ELSE s[k]]
lower(s) == Trocar(s, Maiusculas, Minusculas)
upper(s) == Trocar(s, Minusculas, Maiusculas)
isupper(s) == s # lower(s) /\ s = upper(s)
capitalize(s) == IF s = <<>> THEN s ELSE upper(<<s[1]>>) \o lower(Tail(s))
EhPalavra(c) == upper(<<c>>) # lower(<<c>>) \/ EhDigito(c)

\* The last position of the longest run of characters of a class that starts
\* at k; k - 1 if there is none.
FimDaCorrida(s, k, Classe(_)) ==
    CHOOSE e \in (k - 1)..Len(s) :
        /\ \A j \in k..e : Classe(s[j])
        /\ e = Len(s) \/ ~Classe(s[e + 1])

\* The runs of characters of a class, in order: str.split() is the runs of
\* non-space characters.
Corridas(s, Classe(_)) ==
    LET inicios == {k \in 1..Len(s) : Classe(s[k]) /\ (k = 1 \/ ~Classe(s[k - 1]))}
        inicio(i) == CHOOSE k \in inicios : Cardinality({j \in inicios : j < k}) = i - 1
    IN  [i \in 1..Cardinality(inicios) |->
            SubSeq(s, inicio(i), FimDaCorrida(s, inicio(i), Classe))]
str_split(s) == Corridas(s, LAMBDA c : ~EhEspaco(c))

\* str.splitlines(), and sep.join(lista)
splitlines(s) ==
    LET quebras == {k \in 1..Len(s) : s[k] = "\n"}
        n == Cardinality(quebras)
        quebra(i) == IF i = 0 THEN 0
                     ELSE IF i = n + 1 THEN Len(s) + 1
                     ELSE CHOOSE k \in quebras : Cardinality({j \in quebras : j < k}) = i - 1
        total == IF s = <<>> \/ s[Len(s)] = "\n" THEN n ELSE n + 1
    IN  [i \in 1..total |-> SubSeq(s, quebra(i - 1) + 1, quebra(i) - 1)]
RECURSIVE join(_, _)
join(sep, lista) ==
    IF lista = <<>> THEN <<>>
    ELSE IF Len(lista) = 1 THEN lista[1]
    ELSE lista[1] \o sep \o join(sep, Tail(lista))

\* re.sub for a pattern that matches no empty string: Casar(s, k) is the
\* match that starts at k, as the position of its last character (k - 1 if
\* there is no match) and the replacement.  The scan resumes after each
\* match, and the text between two matches is copied.
RECURSIVE re_sub(_, _, _)
re_sub(Casar(_, _), s, k) ==
    LET inicios == {j \in k..Len(s) : Casar(s, j).fim >= j}
    IN  IF inicios = {} THEN SubSeq(s, k, Len(s))
        ELSE LET j == CHOOSE j \in inicios : \A i \in inicios : j <= i
                 m == Casar(s, j)
             IN  SubSeq(s, k, j - 1) \o m.repl \o re_sub(Casar, s, m.fim + 1)
SemCasar(k) == [fim |-> k - 1, repl |-> <<>>]

\* CONVERSAO_CAPITULOS_EXTENSO_PARA_NUM: the k-th word stands for k.
CONVERSAO_CAPITULOS_EXTENSO_PARA_NUM ==
    <<"UM", "DOIS", "TRÊS", "QUATRO", "CINCO", "SEIS", "SETE", "OITO", "NOVE", "DEZ",
      "ONZE", "DOZE", "TREZE", "CATORZE", "QUINZE", "DEZESSEIS", "DEZESSETE", "DEZOITO",
      "DEZENOVE", "VINTE">>

\* _formatar_numeracao_capitulos.  The pattern, with re.IGNORECASE, is
\*   (cap[íi]tulo|cap\.?)\s+(?:(\d+|[IVXLCDM]+)|([A-ZÇÉÊÓÃÕa-zçéêóãõ]+))
\*   \s*[:\-.]?\s*(?=\S)([^\n]*)?
\* Every quantifier is greedy and gives characters back when what follows
\* fails; what follows fails only at `(?=\S)`, when the text ends.
_formatar_numeracao_capitulos(texto) ==
    LET EhRomano(c) == c \in {"I", "V", "X", "L", "C", "D", "M",
                              "i", "v", "x", "l", "c", "d", "m"}
        EhLetraDeNumero(c) ==
            \E j \in 1..Len(Minusculas) :
                /\ c \in {Minusculas[j], Maiusculas[j]}
                /\ Minusculas[j] \notin {"á", "í", "ú", "â", "ô"}
        NaoEhQuebra(c) == c # "\n"
        \* group 1: how many characters it takes at k, 0 if it does not match
        Tipo(s, k) ==
            IF k + 7 <= Len(s) /\ lower(SubSeq(s, k, k + 7)) \in {Chars("capítulo"),
                                                                    Chars("capitulo")}
            THEN 8
            ELSE IF k + 2 <= Len(s) /\ lower(SubSeq(s, k, k + 2)) = Chars("cap")
            THEN IF k + 3 <= Len(s) /\ s[k + 3] = "." THEN 4 ELSE 3
            ELSE 0
        \* `\s*[:\-.]?\s*(?=\S)` after a number that ends at e: where the title
        \* starts, 0 if the text ends before a title.  When the text ends
        \* after the punctuation mark, the mark is given back and starts the title.
        Titulo(s, e) ==
            LET q1 == FimDaCorrida(s, e + 1, EhEspaco) + 1
            IN  IF q1 > Len(s) THEN 0
                ELSE IF s[q1] \in {":", "-", "."}
                THEN LET q2 == FimDaCorrida(s, q1 + 1, EhEspaco) + 1
                     IN  IF q2 <= Len(s) THEN q2 ELSE q1
                ELSE q1
        \* the number that starts at p, of a class: its last position, 0 if
        \* none; the longest run, or one character less when the text ends
        \* after the longest
        Numero(s, p, Classe(_)) ==
            LET e == FimDaCorrida(s, p, Classe)
            IN  IF e < p THEN 0
                ELSE IF Titulo(s, e) # 0 THEN e
                ELSE IF e > p THEN e - 1
                ELSE 0
        substituir_cap(tipo_cap, numero_rom_arab, numero_extenso, grupo4) ==
            LET titulo_opcional == strip(grupo4)
                num_ext_upper == upper(strip(numero_extenso))
                numero_final ==
                    IF numero_rom_arab # <<>> THEN upper(numero_rom_arab)
                    ELSE IF numero_extenso # <<>>
                    THEN IF \E n \in 1..Len(CONVERSAO_CAPITULOS_EXTENSO_PARA_NUM) :
                                Chars(CONVERSAO_CAPITULOS_EXTENSO_PARA_NUM[n]) = num_ext_upper
                         THEN DigitosDe(CHOOSE n \in 1..Len(CONVERSAO_CAPITULOS_EXTENSO_PARA_NUM) :
                                Chars(CONVERSAO_CAPITULOS_EXTENSO_PARA_NUM[n]) = num_ext_upper)
                         ELSE num_ext_upper
                    ELSE <<>>
                cabecalho == upper(tipo_cap) \o <<" ">> \o numero_final \o <<".">>
                palavras == str_split(titulo_opcional)
                palavras_titulo ==
                    [n \in 1..Len(palavras) |->
                        IF isupper(palavras[n]) /\ Len(palavras[n]) > 1
                        THEN palavras[n] ELSE capitalize(palavras[n])]
            IN  IF titulo_opcional # <<>>
                THEN <<"\n", "\n">> \o cabecalho \o <<"\n", "\n">>
                         \o join(<<" ">>, palavras_titulo)
                ELSE <<"\n", "\n">> \o cabecalho \o <<"\n", "\n">>
        padrao(s, k) ==
            LET t == Tipo(s, k)
                p == FimDaCorrida(s, k + t, EhEspaco) + 1
                e2 == IF p > Len(s) THEN 0
                      ELSE IF EhDigito(s[p]) THEN Numero(s, p, EhDigito)
                      ELSE Numero(s, p, EhRomano)
                e3 == IF p > Len(s) THEN 0 ELSE Numero(s, p, EhLetraDeNumero)
                e == IF e2 # 0 THEN e2 ELSE e3
                q == Titulo(s, e)
                fim == FimDaCorrida(s, q, NaoEhQuebra)
            IN  IF t = 0 \/ p = k + t \/ e = 0 THEN SemCasar(k)
                ELSE [fim |-> fim,
                      repl |-> substituir_cap(SubSeq(s, k, k + t - 1),
                                              IF e2 # 0 THEN SubSeq(s, p, e) ELSE <<>>,
                                              IF e2 # 0 THEN <<>> ELSE SubSeq(s, p, e),
                                              SubSeq(s, q, fim))]
    IN  re_sub(padrao, texto, 1)

\* ABREVIACOES_QUE_NAO_TERMINAM_FRASE
ABREVIACOES_QUE_NAO_TERMINAM_FRASE ==
    {Chars(a) : a \in
        {"sr.", "sra.", "srta.", "dr.", "dra.", "prof.", "profa.", "eng.", "exmo.", "exma.",
         "pe.", "rev.", "ilmo.", "ilma.", "gen.", "cel.", "maj.", "cap.", "ten.", "sgt.",
         "cb.", "sd.", "me.", "ms.", "msc.", "esp.", "av.", "r.", "pç.", "esq.", "trav.",
         "jd.", "pq.", "rod.", "km.", "apt.", "ap.", "bl.", "cj.", "cs.", "ed.", "nº",
         "no.", "uf.", "cep.", "est.", "mun.", "dist.", "zon.", "reg.", "kg.", "cm.",
         "mm.", "lt.", "ml.", "mg.", "seg.", "min.", "hr.", "ltda.", "s.a.", "s/a",
         "cnpj.", "cpf.", "rg.", "proc.", "ref.", "cod.", "tel.", "etc.", "p.ex.", "ex.",
         "i.e.", "e.g.", "vs.", "cf.", "op.cit.", "loc.cit.", "fl.", "fls.", "pag.",
         "p.", "pp.", "u.s.", "e.u.a.", "o.n.u.", "i.b.m.", "h.p.", "obs.", "att.",
         "resp.", "publ.",
         "doutora", "senhora", "senhor", "doutor", "professor", "professora", "general"}}

\* re.sub(r'[ \t]+', ' ', texto)
re_sub_espacos(texto) ==
    LET EhBranco(c) == c = " "
        brancos(s, k) == [fim |-> FimDaCorrida(s, k, EhBranco), repl |-> <<" ">>]
    IN  re_sub(brancos, texto, 1)

\* `\b[A-Z]\.` at the end of a text (termina_sigla_ponto; for a text that
\* ends in its only full stop, SIGLA_COM_PONTOS_RE finds the same)
TerminaSigla(s) ==
    /\ Len(s) >= 2
    /\ s[Len(s)] = "."
    /\ \E j \in 1..26 : Maiusculas[j] = s[Len(s) - 1]
    /\ Len(s) = 2 \/ ~EhPalavra(s[Len(s) - 2])

\* The loop over the lines of one paragraph (lines 393 to 425): a line is
\* joined to the buffer or starts a new paragraph.
RECURSIVE JuntarLinhas(_, _)
JuntarLinhas(linhas_do_paragrafo, buffer_linha_atual) ==
    IF linhas_do_paragrafo = <<>>
    THEN IF buffer_linha_atual # <<>> THEN <<buffer_linha_atual>> ELSE <<>>
    ELSE LET linha_strip == strip(Head(linhas_do_paragrafo))
             palavras == str_split(buffer_linha_atual)
             ultima_palavra_buffer == lower(palavras[Len(palavras)])
             termina_abreviacao ==
                 ultima_palavra_buffer \in ABREVIACOES_QUE_NAO_TERMINAM_FRASE
             termina_sigla_ponto == TerminaSigla(buffer_linha_atual)
             termina_pontuacao_forte ==
                 EhDelimitador(buffer_linha_atual[Len(buffer_linha_atual)])
             nao_juntar ==
                 /\ termina_pontuacao_forte
                 /\ ~termina_abreviacao
                 /\ ~termina_sigla_ponto
                 /\ isupper(<<linha_strip[1]>>)
             juntar_com_anterior ==
                 /\ buffer_linha_atual # <<>>
                 /\ \/ termina_abreviacao \/ termina_sigla_ponto
                    \/ ~nao_juntar /\ ~termina_pontuacao_forte
                    \/ lower(buffer_linha_atual) \in
                           {Chars("doutora"), Chars("senhora"), Chars("senhor"),
                            Chars("doutor")}
         IN  IF linha_strip = <<>>
             THEN JuntarLinhas(Tail(linhas_do_paragrafo), buffer_linha_atual)
             ELSE IF juntar_com_anterior
             THEN JuntarLinhas(Tail(linhas_do_paragrafo),
                               buffer_linha_atual \o <<" ">> \o linha_strip)
             ELSE (IF buffer_linha_atual # <<>> THEN <<buffer_linha_atual>> ELSE <<>>)
                      \o JuntarLinhas(Tail(linhas_do_paragrafo), linha_strip)

\* Lines 388 to 431 of formatar_texto_para_tts: blank runs, blank lines, the
\* paragraphs and their lines, and the newlines left.
LimparQuebras(texto_bruto) ==
    LET NaoVazia(linha) == strip(linha) # <<>>
        linhas == SelectSeq(splitlines(re_sub_espacos(texto_bruto)), NaoVazia)
        sem_linhas_vazias == join(<<"\n">>, [n \in 1..Len(linhas) |-> strip(linhas[n])])
        paragrafos_originais == split(sem_linhas_vazias)
        processado(n) == JuntarLinhas(splitlines(strip(paragrafos_originais[n])), <<>>)
        RECURSIVE todos(_)
        todos(n) == IF n > Len(paragrafos_originais) THEN <<>>
                    ELSE processado(n) \o todos(n + 1)
        juntado == re_sub_espacos(join(<<"\n", "\n">>, todos(1)))
        EhQuebra(c) == c = "\n"
        sem_quebra_simples ==
            [k \in 1..Len(juntado) |->
                IF /\ juntado[k] = "\n"
                   /\ k = 1 \/ juntado[k - 1] # "\n"
                   /\ k = Len(juntado) \/ juntado[k + 1] # "\n"
                THEN " " ELSE juntado[k]]
        quebras(s, k) ==
            LET e == FimDaCorrida(s, k, EhQuebra)
            IN  IF e >= k + 2 THEN [fim |-> e, repl |-> <<"\n", "\n">>] ELSE SemCasar(k)
    IN  re_sub(quebras, sem_quebra_simples, 1)

\* _remover_numeros_pagina_isolados: the lines that are a number and nothing
\* else go; a number at the end of a line, after three blanks or more, goes
\* with the blanks (`\s{3,}\d+\s*$`).
_remover_numeros_pagina_isolados(texto) ==
    LET SoNumero(linha) ==
            strip(linha) # <<>> /\ SelectSeq(strip(linha), EhDigito) = strip(linha)
        Fica(linha) == ~SoNumero(linha)
        \* the first position of the longest run of a class that ends at e
        Inicio(s, e, Classe(_)) ==
            CHOOSE k \in 1..(e + 1) :
                /\ \A j \in k..e : Classe(s[j])
                /\ k = 1 \/ ~Classe(s[k - 1])
        SemNumeroFinal(linha) ==
            LET fim == Len(rstrip(linha))
                numero == Inicio(linha, fim, EhDigito)
                brancos == Inicio(linha, numero - 1, EhEspaco)
            IN  IF numero <= fim /\ numero - brancos >= 3
                THEN SubSeq(linha, 1, brancos - 1) ELSE linha
        linhas == SelectSeq(splitlines(texto), Fica)
    IN  join(<<"\n">>, [n \in 1..Len(linhas) |-> SemNumeroFinal(linhas[n])])

\* re.match(r'^\s*CAP[ÍI]TULO\s+[\w\d]+\.?\s*$', linha, re.IGNORECASE)
e_titulo_capitulo(linha) ==
    LET s == lstrip(linha)
        p == FimDaCorrida(s, 9, EhEspaco) + 1
        e == FimDaCorrida(s, p, EhPalavra)
        resto == SubSeq(s, e + 1, Len(s))
    IN  /\ Len(s) >= 8
        /\ lower(SubSeq(s, 1, 8)) \in {Chars("capítulo"), Chars("capitulo")}
        /\ p > 9
        /\ e >= p
        /\ \/ strip(resto) = <<>>
           \/ resto[1] = "." /\ strip(Tail(resto)) = <<>>

\* Lines 438 to 466: re.split(r'([.!?...])\s*', texto) and the loop that puts
\* the sentences back, each one a paragraph, unless it ends in an abbreviation.
RECURSIVE Reconstruir(_, _)
Reconstruir(texto, buffer_segmento) ==
    LET k == IF PosDelimitadores(texto) = {} THEN Len(texto) + 1
             ELSE Menor(PosDelimitadores(texto))
        pontuacao == IF k > Len(texto) THEN <<>> ELSE <<texto[k]>>
        segmento_completo == strip(SubSeq(texto, 1, k - 1) \o pontuacao)
        resto == SubSeq(texto, FimDaCorrida(texto, k + 1, EhEspaco) + 1, Len(texto))
        palavras == str_split(segmento_completo)
        ultima_palavra == lower(palavras[Len(palavras)])
        NaoDelimitador(c) == ~EhDelimitador(c)
        ultima_palavra_sem_ponto ==
            IF pontuacao # <<>>
            THEN SubSeq(ultima_palavra, 1,
                        CHOOSE e \in 0..Len(ultima_palavra) :
                            /\ \A j \in (e + 1)..Len(ultima_palavra) :
                                   EhDelimitador(ultima_palavra[j])
                            /\ e = 0 \/ ~EhDelimitador(ultima_palavra[e]))
            ELSE ultima_palavra
        termina_abreviacao_conhecida ==
            \/ ultima_palavra \in ABREVIACOES_QUE_NAO_TERMINAM_FRASE
            \/ ultima_palavra_sem_ponto \in ABREVIACOES_QUE_NAO_TERMINAM_FRASE
        nao_quebrar ==
            /\ pontuacao = <<".">>
            /\ termina_abreviacao_conhecida \/ TerminaSigla(segmento_completo)
        buffer == IF buffer_segmento # <<>>
                  THEN buffer_segmento \o <<" ">> \o segmento_completo
                  ELSE segmento_completo
        ultimo == buffer_segmento[Len(buffer_segmento)]
    IN  IF segmento_completo = <<>>
        THEN IF k <= Len(texto) THEN Reconstruir(resto, buffer_segmento)
             ELSE IF buffer_segmento = <<>> THEN <<>>
             ELSE buffer_segmento
                      \o (IF EhDelimitador(ultimo) \/ ultimo = ")" THEN <<>> ELSE <<".">>)
                      \o <<"\n", "\n">>
        ELSE IF nao_quebrar
        THEN Reconstruir(IF k <= Len(texto) THEN resto ELSE <<>>, buffer)
        ELSE buffer \o <<"\n", "\n">>
                 \o Reconstruir(IF k <= Len(texto) THEN resto ELSE <<>>, <<>>)

\* _normalizar_caixa_alta_linhas
_normalizar_caixa_alta_linhas(texto) ==
    LET isalpha(p) == p # <<>> /\ \A k \in 1..Len(p) : upper(<<p[k]>>) # lower(<<p[k]>>)
        EhVogal(c) == c \in {"A", "E", "I", "O", "U"}
        Preservada(p) ==
            /\ Len(p) > 1 /\ isupper(p) /\ isalpha(p)
            /\ p \notin {<<"I">>, <<"A">>, <<"E">>, <<"O">>, <<"U">>}
            /\ ~ ( /\ \E k \in 1..Len(p) : EhVogal(p[k])
                   /\ \E k \in 1..Len(p) : ~EhVogal(p[k])
                   /\ Len(p) <= 4 )
        palavras(linha) ==
            LET ps == str_split(linha)
            IN  [n \in 1..Len(ps) |-> IF Preservada(ps[n]) THEN ps[n] ELSE capitalize(ps[n])]
        nova(linha) ==
            IF e_titulo_capitulo(linha) THEN linha
            ELSE IF isupper(linha) /\ Len(strip(linha)) > 3
            THEN join(<<" ">>, palavras(linha))
            ELSE linha
        linhas == splitlines(texto)
    IN  join(<<"\n">>, [n \in 1..Len(linhas) |-> nova(linhas[n])])

\* num2words(n, lang='pt_BR') and num2words(n, lang='pt_BR', to='ordinal') of
\* the num2words package, for the numbers below a million: the numeral in
\* words.
num2words(n, to) ==
    LET unidades == <<"um", "dois", "três", "quatro", "cinco", "seis", "sete", "oito",
                      "nove", "dez", "onze", "doze", "treze", "catorze", "quinze",
                      "dezesseis", "dezessete", "dezoito", "dezenove">>
        dezenas == <<"dez", "vinte", "trinta", "quarenta", "cinquenta", "sessenta",
                     "setenta", "oitenta", "noventa">>
        centenas == <<"cento", "duzentos", "trezentos", "quatrocentos", "quinhentos",
                      "seiscentos", "setecentos", "oitocentos", "novecentos">>
        e == <<" ", "e", " ">>
        ate99(m) ==
            IF m < 20 THEN Chars(unidades[m])
            ELSE Chars(dezenas[m \div 10])
                     \o (IF m % 10 = 0 THEN <<>> ELSE e \o Chars(unidades[m % 10]))
        ate999(m) ==
            IF m < 100 THEN ate99(m)
            ELSE IF m = 100 THEN Chars("cem")
            ELSE Chars(centenas[m \div 100])
                     \o (IF m % 100 = 0 THEN <<>> ELSE e \o ate99(m % 100))
        cardinal ==
            IF n = 0 THEN Chars("zero")
            ELSE IF n < 1000 THEN ate999(n)
            ELSE (IF n \div 1000 = 1 THEN Chars("mil")
                  ELSE ate999(n \div 1000) \o Chars(" mil"))
                     \o (IF n % 1000 = 0 THEN <<>>
                         ELSE (IF n % 1000 < 100 \/ n % 100 = 0 THEN e ELSE <<" ">>)
                                  \o ate999(n % 1000))
        o_unidades == <<"primeiro", "segundo", "terceiro", "quarto", "quinto", "sexto",
                        "sétimo", "oitavo", "nono">>
        o_dezenas == <<"décimo", "vigésimo", "trigésimo", "quadragésimo", "quinquagésimo",
                       "sexagésimo", "septuagésimo", "octogésimo", "nonagésimo">>
        o_centenas == <<"centésimo", "ducentésimo", "trecentésimo", "quadringentésimo",
                        "quingentésimo", "seiscentésimo", "septingentésimo",
                        "octingentésimo", "nongentésimo">>
        partes ==
            (IF n >= 1000
             THEN <<(IF n \div 1000 = 1 THEN <<>>
                     ELSE Chars(o_unidades[n \div 1000]) \o <<" ">>) \o Chars("milésimo")>>
             ELSE <<>>)
            \o (IF n % 1000 >= 100 THEN <<Chars(o_centenas[(n % 1000) \div 100])>> ELSE <<>>)
            \o (IF n % 100 >= 10 THEN <<Chars(o_dezenas[(n % 100) \div 10])>> ELSE <<>>)
            \o (IF n % 10 # 0 THEN <<Chars(o_unidades[n % 10])>> ELSE <<>>)
    IN  IF to = "ordinal" THEN join(<<" ">>, partes) ELSE cardinal

\* _converter_ordinais_para_extenso: `\b(\d+)\s*([oaºª])(?!\w)`, re.IGNORECASE
_converter_ordinais_para_extenso(texto) ==
    LET substituir_ordinal(numero, terminacao) ==
            LET ordinal_masc == num2words(ValorInteiro(numero), "ordinal")
            IN  IF /\ lower(<<terminacao>>) \in {<<"a">>, <<"ª">>}
                   /\ ordinal_masc # <<>>
                   /\ ordinal_masc[Len(ordinal_masc)] = "o"
                THEN SubSeq(ordinal_masc, 1, Len(ordinal_masc) - 1) \o <<"a">>
                ELSE ordinal_masc
        padrao_ordinal(s, k) ==
            LET e == FimDaCorrida(s, k, EhDigito)
                t == FimDaCorrida(s, e + 1, EhEspaco) + 1
            IN  IF /\ k = 1 \/ ~EhPalavra(s[k - 1])
                   /\ e >= k
                   /\ t <= Len(s)
                   /\ s[t] \in {"o", "a", "O", "A", "º", "ª"}
                   /\ t = Len(s) \/ ~EhPalavra(s[t + 1])
                THEN [fim |-> t, repl |-> substituir_ordinal(SubSeq(s, k, e), s[t])]
                ELSE SemCasar(k)
    IN  re_sub(padrao_ordinal, texto, 1)

\* ABREVIACOES_MAP_LOWER, less the keys with "." or "ª" (chaves_simples)
ABREVIACOES_MAP_LOWER ==
    <<<<"dr", "Doutor">>, <<"d", "Dona">>, <<"dra", "Doutora">>, <<"sr", "Senhor">>,
      <<"sra", "Senhora">>, <<"srta", "Senhorita">>, <<"prof", "Professor">>,
      <<"profa", "Professora">>, <<"eng", "Engenheiro">>, <<"adm", "Administrador">>,
      <<"adv", "Advogado">>, <<"exmo", "Excelentíssimo">>, <<"exma", "Excelentíssima">>,
      <<"av", "Avenida">>, <<"r", "Rua">>, <<"km", "Quilômetro">>, <<"etc", "etcétera">>,
      <<"ref", "Referência">>, <<"pag", "Página">>, <<"pags", "Páginas">>,
      <<"fl", "Folha">>, <<"fls", "Folhas">>, <<"pe", "Padre">>,
      <<"dept", "Departamento">>, <<"depto", "Departamento">>,
      <<"univ", "Universidade">>, <<"inst", "Instituição">>, <<"est", "Estado">>,
      <<"tel", "Telefone">>, <<"eua", "Estados Unidos da América">>, <<"ed", "Edição">>,
      <<"ltda", "Limitada">>>>

\* _expandir_abreviacoes_numeros
_expandir_abreviacoes_numeros(texto) ==
    LET Limite(s, k) == k = 1 \/ EhPalavra(s[k - 1]) # EhPalavra(s[k])
        \* CASOS_ESPECIAIS_RE: `\b<abrev>(?=\s)`, re.IGNORECASE
        caso_especial(abrev, expansao, s, k) ==
            LET e == k + Len(abrev) - 1
            IN  IF /\ Limite(s, k)
                   /\ e < Len(s)
                   /\ lower(SubSeq(s, k, e)) = lower(Chars(abrev))
                   /\ EhEspaco(s[e + 1])
                THEN [fim |-> e, repl |-> Chars(expansao)] ELSE SemCasar(k)
        casos_especiais ==
            re_sub(LAMBDA s, k : caso_especial("Engª.", "Engenheira", s, k),
                   re_sub(LAMBDA s, k : caso_especial("V.Sa.", "Vossa Senhoria", s, k),
                          re_sub(LAMBDA s, k : caso_especial("V.Exa.", "Vossa Excelência", s, k),
                                 texto, 1), 1), 1)
        \* padrao_abrev_simples: `\b(dr|d|...)\.`, re.IGNORECASE
        padrao_abrev_simples(s, k) ==
            LET e == FimDaCorrida(s, k, EhPalavra)
                Chave(n) == Chars(ABREVIACOES_MAP_LOWER[n][1]) = lower(SubSeq(s, k, e))
            IN  IF /\ k = 1 \/ ~EhPalavra(s[k - 1])
                   /\ e >= k
                   /\ e < Len(s)
                   /\ s[e + 1] = "."
                   /\ \E n \in 1..Len(ABREVIACOES_MAP_LOWER) : Chave(n)
                THEN [fim |-> e + 1,
                      repl |-> Chars(ABREVIACOES_MAP_LOWER[
                                   CHOOSE n \in 1..Len(ABREVIACOES_MAP_LOWER) : Chave(n)][2])]
                ELSE SemCasar(k)
        \* `\b\d+\b` and _converter_numero_match
        _converter_numero_match(num_str) ==
            IF Len(num_str) = 4 /\ 1900 <= ValorInteiro(num_str) /\ ValorInteiro(num_str) <= 2100
            THEN num_str
            ELSE IF Len(num_str) > 7 THEN num_str
            ELSE num2words(ValorInteiro(num_str), "cardinal")
        numero(s, k) ==
            LET e == FimDaCorrida(s, k, EhDigito)
            IN  IF /\ k = 1 \/ ~EhPalavra(s[k - 1])
                   /\ e >= k
                   /\ e = Len(s) \/ ~EhPalavra(s[e + 1])
                THEN [fim |-> e, repl |-> _converter_numero_match(SubSeq(s, k, e))]
                ELSE SemCasar(k)
        \* `R\$\s*(\d{1,3}(?:\.\d{3})*),(\d{2})` and _converter_valor_monetario_match
        Milhar(s, p) ==
            /\ p + 3 <= Len(s)
            /\ s[p] = "."
            /\ EhDigito(s[p + 1]) /\ EhDigito(s[p + 2]) /\ EhDigito(s[p + 3])
        valor_monetario(s, k) ==
            LET p == FimDaCorrida(s, k + 2, EhEspaco) + 1
                e == FimDaCorrida(s, p, EhDigito)
                grupos == CHOOSE g \in 0..Len(s) :
                              /\ \A j \in 0..(g - 1) : Milhar(s, e + 1 + 4 * j)
                              /\ ~Milhar(s, e + 1 + 4 * g)
                v == e + 4 * grupos + 1
            IN  IF /\ k < Len(s) /\ s[k] = "R" /\ s[k + 1] = "$"
                   /\ e >= p /\ e - p < 3
                   /\ v + 2 <= Len(s)
                   /\ s[v] = "," /\ EhDigito(s[v + 1]) /\ EhDigito(s[v + 2])
                THEN [fim |-> v + 2,
                      repl |-> num2words(ValorInteiro(SelectSeq(SubSeq(s, p, v - 1), EhDigito)),
                                         "cardinal") \o Chars(" reais")]
                ELSE SemCasar(k)
        \* `R\$\s*(\d+)(?:,00)?`
        valor_inteiro(s, k) ==
            LET p == FimDaCorrida(s, k + 2, EhEspaco) + 1
                e == FimDaCorrida(s, p, EhDigito)
                zeros == e + 3 <= Len(s) /\ SubSeq(s, e + 1, e + 3) = <<",", "0", "0">>
            IN  IF k < Len(s) /\ s[k] = "R" /\ s[k + 1] = "$" /\ e >= p
                THEN [fim |-> IF zeros THEN e + 3 ELSE e,
                      repl |-> num2words(ValorInteiro(SubSeq(s, p, e)), "cardinal")
                                   \o Chars(" reais")]
                ELSE SemCasar(k)
    IN  re_sub(valor_inteiro,
               re_sub(valor_monetario,
                      re_sub(numero,
                             re_sub(padrao_abrev_simples, casos_especiais, 1), 1), 1), 1)

\* Lines 474 to 494 of formatar_texto_para_tts: the full stop after an
\* expanded form of address, and the paragraphs that get a full stop.
Finalizar(texto) ==
    LET formas_expandidas_tratamento ==
            <<"Senhor", "Senhora", "Doutor", "Doutora", "Professor", "Professora",
              "Excelentíssimo", "Excelentíssima">>
        EhMaiusculaAscii(c) == \E j \in 1..26 : Maiusculas[j] = c
        \* `\b<forma>\.\s+([A-Z])` (com_espaco) and `\b<forma>\.([A-Z])`
        padrao_limpeza(forma, com_espaco, s, k) ==
            LET e == k + Len(forma)
                t == FimDaCorrida(s, e + 1, EhEspaco) + 1
            IN  IF /\ k = 1 \/ ~EhPalavra(s[k - 1])
                   /\ e <= Len(s)
                   /\ SubSeq(s, k, e) = Chars(forma) \o <<".">>
                   /\ IF com_espaco THEN t > e + 1 ELSE t = e + 1
                   /\ t <= Len(s)
                   /\ EhMaiusculaAscii(s[t])
                THEN [fim |-> t, repl |-> Chars(forma) \o <<" ", s[t]>>]
                ELSE SemCasar(k)
        RECURSIVE limpo(_)
        limpo(n) ==
            IF n = 0 THEN texto
            ELSE LET anterior == limpo(n - 1)
                     forma == formas_expandidas_tratamento[n]
                 IN  IF anterior = <<>> THEN <<>>
                     ELSE re_sub(LAMBDA s, k : padrao_limpeza(forma, FALSE, s, k),
                                 re_sub(LAMBDA s, k : padrao_limpeza(forma, TRUE, s, k),
                                        anterior, 1), 1)
        paragrafos_finais == split(limpo(Len(formas_expandidas_tratamento)))
        ComTexto(p) == strip(p) # <<>>
        formatado(p) ==
            LET p_strip == strip(p)
                ultimo == p_strip[Len(p_strip)]
            IN  IF /\ ~(EhDelimitador(ultimo) \/ ultimo = ")")
                   /\ ~e_titulo_capitulo(strip(splitlines(p_strip)[1]))
                THEN p_strip \o <<".">> ELSE p_strip
        com_texto == SelectSeq(paragrafos_finais, ComTexto)
        juntado == strip(re_sub_espacos(
                       join(<<"\n", "\n">>, [n \in 1..Len(com_texto) |-> formatado(com_texto[n])])))
        EhQuebra(c) == c = "\n"
        quebras(s, k) ==
            LET e == FimDaCorrida(s, k, EhQuebra)
            IN  IF e >= k + 1 THEN [fim |-> e, repl |-> <<"\n", "\n">>] ELSE SemCasar(k)
    IN  IF texto = <<>> THEN <<>> ELSE strip(re_sub(quebras, juntado, 1))

\* The passes of formatar_texto_para_tts in the order of the code, each one
\* applied to the `texto` the pass before it left.
NumeroDePassos == 8
Passo(n, texto) ==
    CASE n = 1 -> LimparQuebras(texto)
      [] n = 2 -> _remover_numeros_pagina_isolados(texto)
      [] n = 3 -> _formatar_numeracao_capitulos(texto)
      [] n = 4 -> strip(Reconstruir(texto, <<>>))
      [] n = 5 -> _normalizar_caixa_alta_linhas(texto)
      [] n = 6 -> _converter_ordinais_para_extenso(texto)
      [] n = 7 -> _expandir_abreviacoes_numeros(texto)
      [] n = 8 -> Finalizar(texto)

\* The texts given to formatar_texto_para_tts: one line of up to MaxPalavras
\* words of one vocabulary, a single blank between two words.
MaxPalavras == 4
Entradas ==
    LET Vocabularios ==
            {{Chars("capitulo"), Chars("4"), Chars("dois"), Chars("A"), Chars("Fuga")},
             {Chars("Em"), Chars("1945"), Chars("a"), Chars("guerra"), Chars("R$"),
              Chars("1.234,56")}}
    IN  {join(<<" ">>, palavras) :
             palavras \in UNION {[1..n -> vocabulario] :
                                     n \in 1..MaxPalavras, vocabulario \in Vocabularios}}

\* Texts in the form _formatar_numeracao_capitulos writes: the header, a
\* blank line, and the paragraph that follows it.
Canonicos ==
    LET Cabecalhos == {Chars("CAPÍTULO 4."), Chars("CAPÍTULO 12."), Chars("CAPÍTULO IV.")}
        ParagrafosSeguintes ==
            {Chars("A Fuga"), Chars("A guerra"), Chars("era uma vez"), Chars("Em 1945 houve")}
    IN  {cabecalho \o <<"\n", "\n">> \o paragrafo :
             cabecalho \in Cabecalhos, paragrafo \in ParagrafosSeguintes}

\* _formatar_numeracao_capitulos is applied to its own result up to
\* MaxAplicacoes times.
MaxAplicacoes == 2

\* A call of formatar_texto_para_tts(texto_bruto) at its first line, or a call
\* of _formatar_numeracao_capitulos on a text of its own.
InitFormatar ==
    /\ Repouso("fim")
    /\ espera = EsperaParada
    /\ processo = ProcessoParado
    /\ divisao = DivisaoParada
    /\ lite = LiteParado
    /\ tts3 = Tts3Parado
    /\ \/ \E texto_bruto \in Entradas :
              formatacao = [fase |-> "formatar_texto_para_tts", passo |-> 0,
                            texto_bruto |-> texto_bruto, anterior |-> texto_bruto,
                            texto |-> texto_bruto]
       \/ \E texto_bruto \in Canonicos \cup Entradas :
              formatacao = [fase |-> "_formatar_numeracao_capitulos", passo |-> 0,
                            texto_bruto |-> texto_bruto, anterior |-> texto_bruto,
                            texto |-> texto_bruto]

\* The next pass of formatar_texto_para_tts; after the last one the function
\* returns `texto`.
ProximoPasso ==
    /\ formatacao.fase = "formatar_texto_para_tts"
    /\ formatacao.passo < NumeroDePassos
    /\ formatacao' = [formatacao EXCEPT !.passo = @ + 1,
                                        !.anterior = formatacao.texto,
                                        !.texto = Passo(formatacao.passo + 1, @)]
    /\ UNCHANGED <<varsConversao, espera, processo, divisao, lite, tts3>>

\* _formatar_numeracao_capitulos applied to the text the call before it
\* returned.
FormatarCapitulos ==
    /\ formatacao.fase = "_formatar_numeracao_capitulos"
    /\ formatacao.passo < MaxAplicacoes
    /\ formatacao' = [formatacao EXCEPT !.passo = @ + 1,
                                        !.anterior = formatacao.texto,
                                        !.texto = _formatar_numeracao_capitulos(@)]
    /\ UNCHANGED <<varsConversao, espera, processo, divisao, lite, tts3>>

NextFormatar ==
    \/ ProximoPasso
    \/ FormatarCapitulos

SpecFormatar == InitFormatar /\ [][NextFormatar]_vars

\* ---------------------------------------------------------------- claims
PosColeta == {"verificando", "decidindo", "ffmpeg", "confirmando", "confirmado",
              "melhorando", "limpando", "fim"}
PosVerificacao == PosColeta \ {"verificando"}
EmOrdemCrescente(s) == \A k \in 1..(Len(s) - 1) : s[k] < s[k + 1]
Elementos(s) == {s[k] : k \in 1..Len(s)}

\* C1: at every moment the number of chunk tasks inside the semaphore-guarded
\* section (attempting, transcoding or waiting between attempts) is at most
\* the concurrency limit.
C1_AdmissaoLimitada == Cardinality(Admitidas) <= LoteMaximo

\* C1 witness: the limit is reached while another chunk waits for a slot.
C1_Witness ==
    /\ Cardinality(Admitidas) = LoteMaximo
    /\ \E i \in Partes : tarefa[i] = "semaforo"
    /\ pc = "aguardando"

\* C2: the list handed to the assembler is in strictly ascending chunk index
\* order and holds only indices whose task returned success, whatever the
\* order the tasks completed in.
C2_ListaEmOrdem ==
    /\ EmOrdemCrescente(arquivos_mp3_sucesso)
    /\ \A i \in Elementos(arquivos_mp3_sucesso) :
           tarefa[i] = "retornou" /\ ValorRetorno(saida[i])

\* C2 witness: the assembler runs on two or more chunks of which a later one
\* was collected before an earlier one.
C2_Witness ==
    /\ pc = "ffmpeg"
    /\ \E j, k \in 1..Len(ordem_coleta) :
           /\ j < k
           /\ ordem_coleta[j] > ordem_coleta[k]
           /\ {ordem_coleta[j], ordem_coleta[k]} \subseteq Elementos(arquivos_mp3_sucesso)

\* C3 (as claimed): a chunk whose output file is there and big enough when the
\* run starts never has the engine invoked, and is recorded as succeeded when
\* the run ends.
C3_RetomadaRegistrada ==
    \A i \in Partes :
        ArquivoValido(inicial[i]) =>
            /\ ~invocado[i]
            /\ pc = "fim" => resultados_conversao[i]

\* C4: with exactly one chunk ended fatally and no cancellation, the assembler
\* gets the other chunks in index order, the fatal chunk is left out of the
\* final file and counted as the one failure; no task is ever cancelled
\* unless the flag is set.
Fatais == {i \in Partes : saida[i] = "fatal"}
NaoFatal(i) == i \notin Fatais
C4_FalhaFatalContida ==
    /\ \A i \in Partes : tarefa[i] = "cancelada" => CANCELAR_PROCESSAMENTO
    /\ (pc \in PosVerificacao /\ ~CANCELAR_PROCESSAMENTO /\ Cardinality(Fatais) = 1) =>
           /\ arquivos_mp3_sucesso = SelectSeq(IndicesEmOrdem, NaoFatal)
           /\ partes_com_falha = 1
           /\ \A i \in Fatais : ~resultados_conversao[i]
           /\ arquivo_final \in {<<>>, arquivos_mp3_sucesso}
           /\ "concluida" \in mensagens => arquivo_final = arquivos_mp3_sucesso

\* C4 witness: a finished, uncancelled run with one fatal chunk whose final
\* file holds all the other chunks.
C4_Witness ==
    /\ pc = "fim"
    /\ ~CANCELAR_PROCESSAMENTO
    /\ Cardinality(Fatais) = 1
    /\ Len(arquivo_final) = TotalPartes - 1

\* C5: a chunk conversion returns only on success, on a fatal answer of the
\* Gemini API, or with the flag set; so with Edge a False result means the
\* flag is set.
C5_RetentaAteSucessoFatalOuCancelamento ==
    \A i \in Partes :
        tarefa[i] = "retornou" =>
            \/ ValorRetorno(saida[i])
            \/ CANCELAR_PROCESSAMENTO
            \/ motor = "gemini" /\ saida[i] = "fatal"

\* C5 witness: an Edge chunk is trying again with its retry counter at the
\* model's ceiling while another one has returned False on seeing the flag.
C5_Witness ==
    /\ motor = "edge"
    /\ \E i \in Partes : tarefa[i] = "tentando" /\ tentativas[i] = MaxTentativas
    /\ \E j \in Partes : tarefa[j] = "retornou" /\ saida[j] = "cancelado"

\* C6: verification and assembly start only when every chunk task has
\* returned and been collected, or with the flag set.
C6_ColetaCompleta ==
    pc \in PosColeta =>
        \/ CANCELAR_PROCESSAMENTO
        \/ /\ \A i \in Partes : tarefa[i] = "retornou"
           /\ Elementos(ordem_coleta) = Partes
           /\ fila = <<>>

\* C6 witness: assembly has started in a run without cancellation.
C6_Witness ==
    /\ pc = "ffmpeg"
    /\ ~CANCELAR_PROCESSAMENTO
    /\ \E i \in Partes : invocado[i] /\ inicial[i] = Ausente

\* C7 (as claimed): in a cancelled run, a chunk file that was complete (left
\* by an earlier run, or produced in this one) is still on disk when the run
\* returns, unless it went into a successfully assembled final file.
C7_CancelamentoPreserva ==
    (pc = "fim" /\ CANCELAR_PROCESSAMENTO) =>
        \A i \in Partes :
            (ArquivoValido(inicial[i]) \/ saida[i] = "sucesso") =>
                ArquivoValido(arquivo[i]) \/ i \in Elementos(arquivo_final)

\* C8: from a state with the flag set, no step starts an engine call.
C8_SemNovaTentativa ==
    [][CANCELAR_PROCESSAMENTO =>
           \A i \in Partes : tarefa'[i] = "tentando" => tarefa[i] = "tentando"]_vars

\* C8 witness: with the flag set, one task has returned at the semaphore
\* without ever calling the engine and another at the top of its retry loop.
C8_Witness ==
    /\ CANCELAR_PROCESSAMENTO
    /\ \E i \in Partes : saida[i] = "cancelado_semaforo" /\ ~invocado[i]
    /\ \E j \in Partes : saida[j] = "cancelado" /\ inicial[j] = Ausente

\* C9 (as claimed): a task inside its engine call or transcode is never
\* cancelled by the scheduler.
C9_NuncaAborta ==
    [][\A i \in Partes : i \in EmChamada => tarefa'[i] # "cancelada"]_vars

\* C9 (amended): a task inside its engine call or transcode is cancelled only
\* by the collection loop's own check of the flag, with the flag set; every
\* other step leaves it in its call or takes it out by the call coming back.
C9_AbortaSoNaColeta ==
    [][\A i \in Partes :
           (i \in EmChamada /\ tarefa'[i] = "cancelada") =>
               /\ CANCELAR_PROCESSAMENTO
               /\ pc = "topo"
               /\ pc' = "verificando"]_vars

\* C9 witness: the collection loop has cancelled a task inside its call.
C9_Witness ==
    /\ pc = "verificando"
    /\ CANCELAR_PROCESSAMENTO
    /\ \E i \in Partes : tarefa[i] = "cancelada" /\ saida[i] = "abortada"

\* C10 (as claimed): every run ends, with a final file or the "no audio file
\* was generated" message.
C10_SempreTermina ==
    <>(pc = "fim" /\ (arquivo_final # <<>> \/ "nenhum_audio" \in mensagens))

\* C10 (amended): a run ends unless some chunk keeps being sent back to sleep
\* forever with the flag never set; at its end there is a final file, or the
\* assembler's failure was reported, or the "no audio file" message was, or
\* the flag is set and there was nothing to assemble.
C10_TerminaOuRetentaParaSempre ==
    /\ \/ <>(pc = "fim")
       \/ /\ [](~CANCELAR_PROCESSAMENTO)
          /\ \E i \in Partes : []<>(tarefa[i] \in {"dormindo", "dormindo429"})
    /\ [](pc = "fim" =>
             \/ arquivo_final # <<>>
             \/ "falha_unificar" \in mensagens
             \/ "nenhum_audio" \in mensagens
             \/ CANCELAR_PROCESSAMENTO /\ arquivos_mp3_sucesso = <<>>)

\* C10 witness: runs have ended in each way the original claim leaves out.
C10_Witness ==
    /\ pc = "fim"
    /\ arquivo_final = <<>>
    /\ "nenhum_audio" \notin mensagens
    /\ "falha_unificar" \in mensagens
    /\ \E i \in Partes : invocado[i]

\* C11 (as claimed): for both engines the wait after the n-th consecutive
\* failure that is not a rate limit is about 2^n seconds plus a jitter below
\* one second, until that reaches the ceiling of 20 seconds, and is never
\* above the ceiling.
C11_EsperaExponencial ==
    espera.causa = "falha" =>
        LET n == espera.tentativas
        IN  /\ espera.wait_time <= Segundos(TetoEspera)
            /\ espera.wait_time >= Min(Segundos(Potencia(2, n)), Segundos(TetoEspera))
            /\ espera.wait_time < Min(Segundos(Potencia(2, n) + 1), Segundos(TetoEspera) + 1)

\* True of a step that is a 429 answer.
Passo429 == espera' # espera /\ espera'.causa = "429"
\* The delay a 429 body specifies, -1 when it specifies none that reads as a
\* number of seconds.
DelayDoServidor(details) ==
    IF details = <<>> THEN -1 ELSE float(replace_s(details[1]))

\* C12 (as claimed): a Gemini 429 answer that carries a retry delay makes the
\* task wait exactly that delay, and no 429 answer changes the attempt
\* counter, however many come in a row.
C12_EsperaODelayDoServidor ==
    [][Passo429 =>
           /\ espera'.tentativas = espera.tentativas
           /\ DelayDoServidor(espera'.details) >= 0 =>
                  espera'.wait_time = DelayDoServidor(espera'.details)]_vars

\* C12 (amended): a Gemini 429 answer that carries a retry delay above zero
\* makes the task wait exactly that delay; with a delay of zero, or none, it
\* waits between one and two seconds; no 429 answer changes the attempt
\* counter, however many come in a row.
C12_EsperaODelayPositivo ==
    [][Passo429 =>
           /\ espera'.tentativas = espera.tentativas
           /\ IF DelayDoServidor(espera'.details) > 0
              THEN espera'.wait_time = DelayDoServidor(espera'.details)
              ELSE /\ espera'.wait_time >= Segundos(1)
                   /\ espera'.wait_time < Segundos(2)]_vars

\* C12 witness: 429 answers in a row, after failures that had raised the
\* counter, the last one with a delay of 30 seconds that is being waited.
C12_Witness ==
    /\ espera.causa = "429"
    /\ espera.seguidas = Max429
    /\ espera.tentativas >= 2
    /\ espera.details = << <<"3", "0", "s">> >>
    /\ espera.wait_time = Segundos(30)

\* path.exists() and st_size above the threshold, for file f.
ExisteEPassaDoMinimo(f) == f # <<>> /\ f[1] > TamanhoMinimo
Retornou(i) == tarefa[i] = "retornou"

\* C13 (as claimed): whenever a chunk conversion has returned success, whatever
\* the text, the output file exists and is larger than 200 bytes.
C13_SucessoTemArquivo ==
    \A i \in Partes :
        (Retornou(i) /\ ValorRetorno(saida[i])) => ExisteEPassaDoMinimo(arquivo[i])

\* C13 (amended): whenever a chunk conversion has returned success for a text
\* that is not empty, the output file exists and is larger than 200 bytes; for
\* an empty text it returns success with such a file (one that was already
\* there) or with no file at all.
C13_SucessoComTextoTemArquivo ==
    \A i \in Partes :
        (Retornou(i) /\ ValorRetorno(saida[i])) =>
            IF texto_vazio[i]
            THEN ExisteEPassaDoMinimo(arquivo[i]) \/ arquivo[i] = <<>>
            ELSE ExisteEPassaDoMinimo(arquivo[i])

\* C13 witness: a conversion of a chunk with text has returned success after
\* the engine was called, where a file cut short had been in the way.
C13_Witness ==
    /\ Retornou(1)
    /\ saida[1] = "sucesso"
    /\ ~texto_vazio[1]
    /\ invocado[1]
    /\ inicial[1] = Truncado

\* C14 (as claimed): when an attempt is under way the file of an earlier,
\* failed attempt is gone, and a conversion that has returned failure has not
\* left a file below the minimum size at the output path.
C14_SemArquivoTruncado ==
    \A i \in Partes :
        /\ tarefa[i] = "tentando" => arquivo[i] = <<>>
        /\ (Retornou(i) /\ ~ValorRetorno(saida[i])) =>
               (arquivo[i] = <<>> \/ ExisteEPassaDoMinimo(arquivo[i]))

\* True of a step in which the Gemini task of chunk i gets response r.
Respondida(i, r) ==
    /\ pc = "aguardando"
    /\ pc' = "aguardando"
    /\ motor = "gemini"
    /\ tarefa[i] = "tentando"
    /\ TratarResposta(i, r)
\* True of a step in which the transcode of chunk i comes back.
Transcodificada(i) ==
    /\ pc = "aguardando"
    /\ pc' = "aguardando"
    /\ tarefa[i] = "transcodificando"
    /\ tarefa'[i] # "transcodificando"

PosUnificacao == {"confirmando", "confirmado", "melhorando", "limpando", "fim"}

\* C16: once the assembler has returned, the chunk files it was given are
\* gone if and only if it reported success; when it failed every one of them
\* is still on disk, whole, also after the final cleanup.
C16_TemporariosSoSaemNoSucesso ==
    (pc \in PosUnificacao /\ arquivos_mp3_sucesso # <<>>) =>
        /\ ("concluida" \in mensagens) # ("falha_unificar" \in mensagens)
        /\ \A i \in Elementos(arquivos_mp3_sucesso) :
               /\ arquivo[i] = <<>> <=> "concluida" \in mensagens
               /\ "falha_unificar" \in mensagens => ExisteEPassaDoMinimo(arquivo[i])

\* C16 witness: a run has ended whose assembler failed on two or more chunk
\* files while another chunk had failed for good.
C16_Witness ==
    /\ pc = "fim"
    /\ "falha_unificar" \in mensagens
    /\ Len(arquivos_mp3_sucesso) >= 2
    /\ \E i \in Partes : saida[i] = "fatal"

\* C17 (as claimed): from the reset at the start of iniciar_conversao_tts
\* until it returns, no step takes the flag from set back to unset.
C17_FlagNuncaVolta ==
    [][CANCELAR_PROCESSAMENTO => CANCELAR_PROCESSAMENTO']_vars

\* C18: one task is created per chunk index and none twice; the chunk files
\* have different names; while the tasks run, a chunk file changes only in a
\* step of the task of its own index; and a slot of the result array is
\* written only with the outcome of the returned task of that index.
C18_UmaTarefaUmArquivoUmSlot ==
    /\ [](\A i, j \in Partes : i # j => NomeTemporario(i) # NomeTemporario(j))
    /\ [][\A j \in Partes :
              /\ tarefa'[j] = "nao_criada" => tarefa[j] = "nao_criada"
              /\ (tarefa[j] = "nao_criada" /\ tarefa'[j] # "nao_criada") =>
                     /\ j = idx_global_parte + 1
                     /\ idx_global_parte' = j
              /\ (pc = "aguardando" /\ arquivo'[j] # arquivo[j]) =>
                     /\ tarefa'[j] # tarefa[j]
                     /\ \A k \in Partes \ {j} :
                            tarefa'[k] = tarefa[k] /\ arquivo'[k] = arquivo[k]
              /\ (pc = "aguardando" /\ resultados_conversao'[j] # resultados_conversao[j]) =>
                     /\ Retornou(j)
                     /\ fila # <<>> /\ j = Head(fila)
                     /\ resultados_conversao'[j] = ValorRetorno(saida[j])
                     /\ \A k \in Partes \ {j} :
                            resultados_conversao'[k] = resultados_conversao[k]]_vars

\* C18 witness: chunk 2 finished and was collected before chunk 1, each with
\* its own outcome in its own slot and only the file of chunk 2 on disk.
C18_Witness ==
    /\ pc = "topo"
    /\ ordem_coleta = <<2, 1>>
    /\ resultados_conversao[2] /\ saida[2] = "sucesso"
    /\ ~resultados_conversao[1] /\ saida[1] = "fatal"
    /\ ExisteEPassaDoMinimo(arquivo[2]) /\ arquivo[1] = <<>>

\* C19: once _executar_ffmpeg_comando has read the flag as set, the process
\* has been sent terminate; it is killed only after that, when it is still
\* running at the end of the grace timeout; the call then returns False and
\* does not leave the process running; and a call that returns True has not
\* read the flag as set.
C19_CancelamentoTerminaFfmpeg ==
    /\ processo.visto => processo.terminate
    /\ processo.kill => (processo.visto /\ processo.terminate /\ processo.estado = "morto")
    /\ (processo.visto /\ processo.fase = "retornou") =>
           /\ processo.retorno = "False"
           /\ processo.estado # "rodando"
           /\ processo.estado = "morto" <=> processo.kill
    /\ processo.retorno = "True" => (~processo.visto /\ processo.estado = "saiu_0")

\* C19 witness: the call has returned after a cancellation it saw on the
\* second line, with the process killed at the end of the grace timeout.
C19_Witness ==
    /\ processo.fase = "retornou"
    /\ processo.visto
    /\ processo.kill
    /\ processo.escritas >= 2
    /\ processo.pipe = 0
    /\ CANCELAR_PROCESSAMENTO

\* C20: for every text and every limit above zero, dividir_texto_para_tts
\* returns only strings that are not empty or all whitespace, each no longer
\* than the limit; and of the slices of a sentence longer than the limit all
\* but the last have exactly the length of the limit.
C20_PartesDentroDoLimite ==
    divisao.fase = "retornou" =>
        \A k \in 1..Len(divisao.partes) :
            LET p == divisao.partes[k]
            IN  /\ \E j \in 1..Len(p.texto) : p.texto[j] \notin {" ", "\n"}
                /\ Len(p.texto) <= divisao.limite_caracteres
                /\ (p.fatia /\ ~p.ultima) => Len(p.texto) = divisao.limite_caracteres

\* C20 witness: a call has returned a piece that is not a slice together
\* with slices of a sentence longer than the limit, of which one was all
\* whitespace and dropped.
C20_Witness ==
    /\ divisao.fase = "retornou"
    /\ Len(PartesFinais(split(divisao.texto_processado), divisao.limite_caracteres))
           > Len(divisao.partes)
    /\ \E k \in 1..Len(divisao.partes) : ~divisao.partes[k].fatia
    /\ \E k \in 1..Len(divisao.partes) :
           divisao.partes[k].fatia /\ ~divisao.partes[k].ultima
    /\ \E k \in 1..Len(divisao.partes) :
           divisao.partes[k].fatia /\ divisao.partes[k].ultima

\* The characters of s that are not whitespace, in order.
NaoEspaco(c) == c \notin {" ", "\n"}
SemEspacos(s) == SelectSeq(s, NaoEspaco)
RECURSIVE Concatenar(_)
Concatenar(partes) ==
    IF partes = <<>> THEN <<>> ELSE Head(partes).texto \o Concatenar(Tail(partes))

\* C21: for every text and every limit above zero, the chunks returned by
\* dividir_texto_para_tts, concatenated in order, have exactly the
\* non-whitespace characters of the input, in the same order.
C21_ConcatenacaoPreserva ==
    divisao.fase = "retornou" =>
        SemEspacos(Concatenar(divisao.partes)) = SemEspacos(divisao.texto_processado)

\* C21 witness: a call has returned, for a text of two paragraphs with both
\* letters, a packed segment and slices of a sentence longer than the limit.
C21_Witness ==
    /\ divisao.fase = "retornou"
    /\ Quebras(divisao.texto_processado) # {}
    /\ \E j, k \in 1..Len(divisao.texto_processado) :
           divisao.texto_processado[j] = "a" /\ divisao.texto_processado[k] = "b"
    /\ \E k \in 1..Len(divisao.partes) : divisao.partes[k].fatia
    /\ \E k \in 1..Len(divisao.partes) : ~divisao.partes[k].fatia

\* C27 (as claimed): the failure counter counts only tasks that ended by a
\* fatal error: it is never above the number of chunks that ended fatally,
\* and a task that returned on seeing the flag is not counted.
C27_SoFalhasFatais ==
    partes_com_falha <= Cardinality(Fatais)

\* The chunks inside `async with semaphore_api_calls`: attempting,
\* transcoding, or asleep between attempts.
NaSecao == {i \in Partes : tarefa[i] \in {"tentando", "transcodificando", "dormindo",
                                           "dormindo429"}}

\* C29: every chunk between admission and return holds a slot, asleep or
\* not; a chunk is admitted only when fewer chunks than the limit are in the
\* section; and a chunk leaves the section only by returning on success, on
\* a fatal answer or on seeing the flag (or by the scheduler cancelling every
\* task, after which none is admitted).
C29_SlotAteRetornar ==
    /\ [](semaphore_api_calls = LoteMaximo - Cardinality(NaSecao))
    /\ [][\A i \in Partes :
              /\ (tarefa[i] = "semaforo" /\ tarefa'[i] \notin {"semaforo", "cancelada"}) =>
                     Cardinality(NaSecao) < LoteMaximo
              /\ (i \in NaSecao /\ i \notin NaSecao') =>
                     \/ Retornou(i)' /\ saida'[i] \in {"sucesso", "fatal", "cancelado"}
                     \/ /\ CANCELAR_PROCESSAMENTO
                        /\ \A j \in Partes : tarefa'[j] \notin {"semaforo"} \cup
                               {"tentando", "transcodificando", "dormindo", "dormindo429"}]_vars

\* C29 witness: as many chunks as the limit are asleep between attempts while
\* another waits for a slot, and the flag is not set.
C29_Witness ==
    /\ ~CANCELAR_PROCESSAMENTO
    /\ Cardinality({i \in Partes : tarefa[i] \in {"dormindo", "dormindo429"}}) = LoteMaximo
    /\ \E j \in Partes : tarefa[j] = "semaforo"

\* C22: the progress marker names the last chunk that was synthesized: every
\* chunk with an index up to the marker read by ler_progresso has had its
\* audio produced by some run.
C22_MarcadorSoDePartesSintetizadas ==
    \A j \in Partes : j <= ler_progresso(lite.arquivo_progresso) => j \in lite.sintetizadas

\* C30: after a run was interrupted with some chunks synthesized, a run that
\* resumed from the marker, gave up on no chunk and finished by unifying
\* leaves a final file with the audio of every chunk 1..N in index order.
C30_RetomadaUnificaTodasAsPartes ==
    ( /\ lite.interrompida
      /\ lite.fase = "retornou"
      /\ lite.retorno
      /\ ~lite.manter_separado
      /\ lite.indice_inicial > 0
      /\ lite.esgotadas = {} )
    => ( /\ lite.arquivo_saida.existe
         /\ lite.arquivo_saida.conteudo = [k \in 1..TotalPartes |-> k] )

\* C28: during one run the TTS engine is invoked at most MAX_TENTATIVAS
\* times for any single chunk.
C28_NoMaximoTresInvocacoes ==
    \A i \in PartesTTS3 : tts3.chunk[i].invocacoes <= MAX_TENTATIVAS

\* formatar_texto_para_tts has returned `texto`.
FormatacaoRetornou ==
    /\ formatacao.fase = "formatar_texto_para_tts"
    /\ formatacao.passo = NumeroDePassos

\* `trecho` occurs in `texto`.
Contem(texto, trecho) ==
    \E k \in 1..(Len(texto) - Len(trecho) + 1) :
        SubSeq(texto, k, k + Len(trecho) - 1) = trecho

\* `digitos` occurs in `texto` with no digit before it and none after it.
TemNumero(texto, digitos) ==
    \E k \in 1..(Len(texto) - Len(digitos) + 1) :
        /\ SubSeq(texto, k, k + Len(digitos) - 1) = digitos
        /\ k = 1 \/ ~EhDigito(texto[k - 1])
        /\ k + Len(digitos) > Len(texto) \/ ~EhDigito(texto[k + Len(digitos)])

\* C23: for the input "capitulo 4 A Fuga" formatar_texto_para_tts returns the
\* header paragraph "CAPÍTULO 4.", a blank line and the title "A Fuga", the
\* chapter number as it was given.
C23_CapituloEmBlocoCanonico ==
    (FormatacaoRetornou /\ formatacao.texto_bruto = Chars("capitulo 4 A Fuga"))
    => formatacao.texto = Chars("CAPÍTULO 4.") \o <<"\n", "\n">> \o Chars("A Fuga")

\* C24: for an input with the amount "R$ 1.234,56" the text that
\* formatar_texto_para_tts returns has the amount in words, ending in
\* "reais", and the amount has left no digit in it.
C24_ValorMonetarioPorExtenso ==
    (FormatacaoRetornou /\ Contem(formatacao.texto_bruto, Chars("R$ 1.234,56")))
    => ( /\ Contem(formatacao.texto, Chars("reais"))
         /\ formatacao.texto_bruto = Chars("R$ 1.234,56")
                => \A k \in 1..Len(formatacao.texto) : ~EhDigito(formatacao.texto[k]) )

\* C25: a 4-digit number between 1900 and 2100 that stands among other
\* words of the input is in the text formatar_texto_para_tts returns, as
\* the same digits.
C25_AnoPermaneceEmDigitos ==
    ( /\ FormatacaoRetornou
      /\ TemNumero(formatacao.texto_bruto, Chars("1945"))
      /\ formatacao.texto_bruto # Chars("1945") )
    => TemNumero(formatacao.texto, Chars("1945"))

\* C26: _formatar_numeracao_capitulos applied to a text that is a header
\* paragraph, a blank line and the paragraph that follows returns the text
\* it was given.
C26_PassagemDeCapitulosIdempotente ==
    ( /\ formatacao.fase = "_formatar_numeracao_capitulos"
      /\ formatacao.passo >= 1
      /\ formatacao.anterior \in Canonicos )
    => formatacao.texto = formatacao.anterior

====
